---- MODULE Spec2Model ----
(***************************************************************************)
(* Model of the signature and structure diff engine of kernel_api_diff:    *)
(* SourceDiffAnalyzer (analyze_source_diff.py) and the function loop of    *)
(* KernelAPIAnalyzer (kernel_api_analyzer.py).                             *)
(*                                                                         *)
(* Python strings are modelled as sequences of one-character strings, so   *)
(* that strip, split, the regular expressions and the bracket counting act *)
(* on characters exactly as the code does.                                 *)
(***************************************************************************)
EXTENDS Integers, Sequences, FiniteSets, TLC

VARIABLES signature, params, old_params, new_params, changes, old_sig, new_sig, pc,
          file, line_num, signature_lines, fields, last_i, raised,
          old_fields, new_fields, field_changes,
          api_changes, abi_breaking_changes, abi_calls,
          old_funcs, new_funcs, visited, functions,
          old_structs, new_structs, visited_structs, struct_changes,
          tag_lines, lines_read, symbols

\* the source file read by an extractor, the line the tag index gives, and the
\* locals and results of extract_function_signature / extract_struct_fields
extractVars == <<file, line_num, signature_lines, fields, last_i>>

\* the arguments of compare_struct_fields and the results of its evaluations
diffVars == <<old_fields, new_fields, field_changes>>

\* the fields of an ABIImpactAnalyzer and the number of analyze_abi_impact calls
abiVars == <<api_changes, abi_breaking_changes, abi_calls>>

\* the two tag indexes, the names the loops of _analyze_functions have visited
\* and self.changes['functions']
loopVars == <<old_funcs, new_funcs, visited, functions>>

\* the two struct indexes, the names the loops of _analyze_structs have
\* visited and self.changes['structs']
structVars == <<old_structs, new_structs, visited_structs, struct_changes>>

\* the lines of the tags file that the for loop of parse_ctags_json has taken,
\* their number and the dict symbols
tagVars == <<tag_lines, lines_read, symbols>>

vars == <<signature, params, old_params, new_params, changes, old_sig, new_sig, pc,
          extractVars, diffVars, abiVars, loopVars, structVars, tagVars, raised>>

\* a path that cannot be opened
NoFile == [exists |-> FALSE, lines |-> <<>>]

\* the values of the variables a state machine does not use
IdleExtract ==
    /\ file = NoFile /\ line_num = 0
    /\ signature_lines = <<>> /\ fields = <<>> /\ last_i = -1

IdleDiff == old_fields = <<>> /\ new_fields = <<>> /\ field_changes = <<>>

IdleABI ==
    /\ api_changes = [functions |-> <<>>, structs |-> <<>>]
    /\ abi_breaking_changes = <<>>
    /\ abi_calls = 0

IdleLoop ==
    /\ old_funcs = <<>> /\ new_funcs = <<>>
    /\ visited = {} /\ functions = <<>>

IdleStructs ==
    /\ old_structs = <<>> /\ new_structs = <<>>
    /\ visited_structs = {} /\ struct_changes = <<>>

IdleTags == tag_lines = <<>> /\ lines_read = 0 /\ symbols = <<>>

-----------------------------------------------------------------------------
(* Bounds of the model *)

\* longest parameter text, in tokens, enumerated exhaustively for the parser
MaxTokens == 4

\* longest parameter list enumerated for compare_function_parameters
MaxParams == 3

\* longest source file, in lines, enumerated exhaustively for the extractors
MaxLines == 3

\* longest field list given to compare_struct_fields
MaxFields == 3

\* number of times compare_struct_fields is evaluated on the same arguments
MaxEvaluations == 2

\* largest number of change records given to an ABIImpactAnalyzer
MaxRecords == 2

\* number of analyze_abi_impact calls on one ABIImpactAnalyzer
MaxCalls == 2

\* the largest number of lines of a tags file
MaxTagLines == 3

-----------------------------------------------------------------------------
(* Characters and string primitives of Python *)

\* str.strip() / str.split() / \s of re: the whitespace characters
Whitespace == {" ", "\t", "\n"}

Openers == {"(", "[", "{"}

Closers == {")", "]", "}"}

\* str.strip()
strip(s) ==
    IF \A i \in 1..Len(s) : s[i] \in Whitespace
    THEN <<>>
    ELSE LET a == CHOOSE i \in 1..Len(s) :
                      s[i] \notin Whitespace /\ \A j \in 1..(i-1) : s[j] \in Whitespace
             b == CHOOSE i \in 1..Len(s) :
                      s[i] \notin Whitespace /\ \A j \in (i+1)..Len(s) : s[j] \in Whitespace
         IN SubSeq(s, a, b)

\* re.sub(r'\s+', ' ', s)
RECURSIVE sub_ws(_)
sub_ws(s) ==
    IF s = <<>> THEN <<>>
    ELSE IF Head(s) \in Whitespace
         THEN IF Len(s) > 1 /\ s[2] \in Whitespace
              THEN sub_ws(Tail(s))
              ELSE <<" ">> \o sub_ws(Tail(s))
         ELSE <<Head(s)>> \o sub_ws(Tail(s))

\* str.lstrip('*')
RECURSIVE lstrip_star(_)
lstrip_star(s) ==
    IF s # <<>> /\ Head(s) = "*" THEN lstrip_star(Tail(s)) ELSE s

\* param.rsplit(None, 1): the text is cut at its last run of whitespace
rsplit1(s) ==
    LET t == strip(s) IN
    IF \A i \in 1..Len(t) : t[i] \notin Whitespace
    THEN IF t = <<>> THEN <<>> ELSE <<t>>
    ELSE LET k == CHOOSE i \in 1..Len(t) :
                      t[i] \in Whitespace /\ \A j \in (i+1)..Len(t) : t[j] \notin Whitespace
             e == CHOOSE i \in 0..(k-1) :
                      /\ \A j \in (i+1)..k : t[j] \in Whitespace
                      /\ (i = 0 \/ t[i] \notin Whitespace)
         IN IF e = 0 THEN <<SubSeq(t, k+1, Len(t))>>
            ELSE <<SubSeq(t, 1, e), SubSeq(t, k+1, Len(t))>>

\* re.search(r'\((.*?)\)', signature): the leftmost "(" that a ")" follows with
\* no newline in between (. does not match a newline), up to the nearest ")"
re_search_params(sig) ==
    LET starts == {i \in 1..Len(sig) :
                      /\ sig[i] = "("
                      /\ \E j \in (i+1)..Len(sig) :
                            /\ sig[j] = ")"
                            /\ \A k \in (i+1)..(j-1) : sig[k] # "\n"}
    IN IF starts = {}
       THEN [matched |-> FALSE, group1 |-> <<>>]
       ELSE LET i == CHOOSE x \in starts : \A y \in starts : x <= y
                j == CHOOSE x \in (i+1)..Len(sig) :
                         sig[x] = ")" /\ \A y \in (i+1)..(x-1) : sig[y] # ")"
            IN [matched |-> TRUE, group1 |-> SubSeq(sig, i+1, j-1)]

-----------------------------------------------------------------------------
(* SourceDiffAnalyzer._parse_single_param *)

\* _parse_single_param cutting at the first run of whitespace (split, not rsplit)
parse_single_param_split_first(param0) ==
    LET param == sub_ws(strip(param0))
        cut   == IF \E i \in 1..Len(param) : param[i] = " "
                 THEN CHOOSE i \in 1..Len(param) :
                          param[i] = " " /\ \A j \in 1..(i-1) : param[j] # " "
                 ELSE 0
        first == SubSeq(param, 1, cut - 1)
        rest  == SubSeq(param, cut + 1, Len(param))
        star  == cut > 0 /\ rest # <<>> /\ rest[1] = "*"
    IN [type |-> IF cut = 0 THEN param
                 ELSE IF star THEN first \o <<" ", "*">> ELSE first,
        name |-> IF cut = 0 THEN <<>>
                 ELSE IF star THEN lstrip_star(rest) ELSE rest,
        full |-> param]

_parse_single_param(param0) ==
    LET param == sub_ws(strip(param0))
        parts == rsplit1(param)
        star  == Len(parts) = 2 /\ parts[2] # <<>> /\ parts[2][1] = "*"
        ptype == IF Len(parts) = 2
                 THEN IF star THEN parts[1] \o <<" ", "*">> ELSE parts[1]
                 ELSE param
        pname == IF Len(parts) = 2
                 THEN IF star THEN lstrip_star(parts[2]) ELSE parts[2]
                 ELSE <<>>
    IN [type |-> strip(ptype), name |-> strip(pname), full |-> param]

(* SourceDiffAnalyzer.parse_function_parameters: the splitting loop over       *)
(* params_str + ','                                                          *)
RECURSIVE split_loop(_, _, _, _, _)
split_loop(s, i, depth, current_param, acc) ==
    IF i > Len(s) THEN acc
    ELSE LET char == s[i] IN
         IF char = "," /\ depth = 0
         THEN LET param == strip(current_param) IN
              split_loop(s, i + 1, depth, <<>>,
                         IF param # <<>>
                         THEN Append(acc, _parse_single_param(param))
                         ELSE acc)
         ELSE split_loop(s, i + 1,
                         IF char \in Openers THEN depth + 1
                         ELSE IF char \in Closers THEN depth - 1
                         ELSE depth,
                         Append(current_param, char), acc)

s_void == <<"v", "o", "i", "d">>

\* the splitting loop without the `if param:` test
RECURSIVE split_loop_keep_empty(_, _, _, _, _)
split_loop_keep_empty(s, i, depth, current_param, acc) ==
    IF i > Len(s) THEN acc
    ELSE LET char == s[i] IN
         IF char = "," /\ depth = 0
         THEN split_loop_keep_empty(s, i + 1, depth, <<>>,
                         Append(acc, _parse_single_param(strip(current_param))))
         ELSE split_loop_keep_empty(s, i + 1,
                         IF char \in Openers THEN depth + 1
                         ELSE IF char \in Closers THEN depth - 1
                         ELSE depth,
                         Append(current_param, char), acc)

\* parse_function_parameters keeping the empty fragments
parse_keep_empty(sig) ==
    LET match == re_search_params(sig) IN
    IF ~match.matched THEN <<>>
    ELSE LET params_str == strip(match.group1) IN
         IF params_str = <<>> \/ params_str = s_void THEN <<>>
         ELSE split_loop_keep_empty(params_str \o <<",">>, 1, 0, <<>>, <<>>)

\* parse_function_parameters without the `void` test
parse_without_void_test(sig) ==
    LET match == re_search_params(sig) IN
    IF ~match.matched THEN <<>>
    ELSE LET params_str == strip(match.group1) IN
         IF params_str = <<>> THEN <<>>
         ELSE split_loop(params_str \o <<",">>, 1, 0, <<>>, <<>>)

parse_function_parameters(sig) ==
    LET match == re_search_params(sig) IN
    IF ~match.matched THEN <<>>
    ELSE LET params_str == strip(match.group1) IN
         IF params_str = <<>> \/ params_str = s_void THEN <<>>
         ELSE split_loop(params_str \o <<",">>, 1, 0, <<>>, <<>>)

-----------------------------------------------------------------------------
(* SourceDiffAnalyzer.compare_function_parameters *)

Min(a, b) == IF a < b THEN a ELSE b

\* the param_count_change record, emitted first when the lengths differ
count_change(old, new) ==
    IF Len(old) # Len(new)
    THEN <<[type |-> "param_count_change",
            old_count |-> Len(old), new_count |-> Len(new)]>>
    ELSE <<>>

\* type_change with old_type and new_type exchanged
type_change_swapped(old_p, new_p, i) ==
    IF old_p.type # new_p.type
    THEN <<[type |-> "param_type_change", position |-> i,
            old_type |-> new_p.type, new_type |-> old_p.type,
            param_name |-> new_p.name]>>
    ELSE <<>>

\* the param_type_change record of position i (zero-based)
type_change(old_p, new_p, i) ==
    IF old_p.type # new_p.type
    THEN <<[type |-> "param_type_change", position |-> i,
            old_type |-> old_p.type, new_type |-> new_p.type,
            param_name |-> new_p.name]>>
    ELSE <<>>

\* name_change as the elif branch of the type test
name_change_elif(old_p, new_p, i) ==
    IF /\ old_p.type = new_p.type
       /\ old_p.name # <<>> /\ new_p.name # <<>> /\ old_p.name # new_p.name
    THEN <<[type |-> "param_name_change", position |-> i,
            old_name |-> old_p.name, new_name |-> new_p.name]>>
    ELSE <<>>

\* the param_name_change record of position i (zero-based)
name_change(old_p, new_p, i) ==
    IF old_p.name # <<>> /\ new_p.name # <<>> /\ old_p.name # new_p.name
    THEN <<[type |-> "param_name_change", position |-> i,
            old_name |-> old_p.name, new_name |-> new_p.name]>>
    ELSE <<>>

\* the loop over range(min(len(old_params), len(new_params))), from index i on
RECURSIVE prefix_changes(_, _, _)
prefix_changes(old, new, i) ==
    IF i >= Min(Len(old), Len(new)) THEN <<>>
    ELSE type_change(old[i + 1], new[i + 1], i)
         \o name_change(old[i + 1], new[i + 1], i)
         \o prefix_changes(old, new, i + 1)

\* added_changes numbering the extra parameters from 0
added_changes_relative(old, new) ==
    IF Len(new) > Len(old)
    THEN [k \in 1..(Len(new) - Len(old)) |->
            [type |-> "param_added", position |-> k - 1,
             param |-> new[Len(old) + k].full]]
    ELSE <<>>

\* the param_added records: range(len(old_params), len(new_params))
added_changes(old, new) ==
    IF Len(new) > Len(old)
    THEN [k \in 1..(Len(new) - Len(old)) |->
            [type |-> "param_added", position |-> Len(old) + k - 1,
             param |-> new[Len(old) + k].full]]
    ELSE <<>>

\* the param_removed records: range(len(new_params), len(old_params))
removed_changes(old, new) ==
    IF Len(old) > Len(new)
    THEN [k \in 1..(Len(old) - Len(new)) |->
            [type |-> "param_removed", position |-> Len(new) + k - 1,
             param |-> old[Len(new) + k].full]]
    ELSE <<>>

\* compare_function_parameters with the count test after the positional loop
compare_count_after_prefix(old, new) ==
    prefix_changes(old, new, 0)
    \o count_change(old, new)
    \o added_changes(old, new)
    \o removed_changes(old, new)

compare_function_parameters(old, new) ==
    count_change(old, new)
    \o prefix_changes(old, new, 0)
    \o added_changes(old, new)
    \o removed_changes(old, new)

-----------------------------------------------------------------------------
(* SourceDiffAnalyzer.extract_function_signature *)

\* the `+ 20` of the scan range of extract_function_signature
FunctionWindow == 20

\* the `+ 500` of the scan range of extract_struct_fields
StructWindow == 500

Max(a, b) == IF a > b THEN a ELSE b

\* sub in line
Contains(line, sub) ==
    \E i \in 0..(Len(line) - Len(sub)) : SubSeq(line, i + 1, i + Len(sub)) = sub

\* line.startswith(prefix)
startswith(line, prefix) ==
    Len(line) >= Len(prefix) /\ SubSeq(line, 1, Len(prefix)) = prefix

\* line.count(char)
count(line, char) == Cardinality({i \in 1..Len(line) : line[i] = char})

\* text.split(char)[0]
split_first(text, char) ==
    IF \A i \in 1..Len(text) : text[i] # char THEN text
    ELSE LET k == CHOOSE i \in 1..Len(text) :
                      text[i] = char /\ \A j \in 1..(i-1) : text[j] # char
         IN SubSeq(text, 1, k - 1)

\* ' '.join(lines)
RECURSIVE join(_)
join(lines) ==
    IF lines = <<>> THEN <<>>
    ELSE IF Len(lines) = 1 THEN lines[1]
    ELSE lines[1] \o <<" ">> \o join(Tail(lines))

\* the for loop of extract_function_signature, from index i (zero-based) on:
\* every line looked at is stripped and appended, a `{` or a `;` ends the loop
RECURSIVE signature_scan(_, _, _, _)
signature_scan(lines, i, stop, acc) ==
    IF i >= stop THEN acc
    ELSE LET line == strip(lines[i + 1]) IN
         IF Contains(line, <<"{">>) \/ Contains(line, <<";">>)
         THEN Append(acc, line)
         ELSE signature_scan(lines, i + 1, stop, Append(acc, line))

\* signature_lines after the loop over
\* range(max(0, line_num - 1), min(len(lines), line_num + 20))
scan_signature_lines(lines, n) ==
    signature_scan(lines, Max(0, n - 1), Min(Len(lines), n + FunctionWindow), <<>>)

\* normalize_signature without the re.sub of the whitespace runs
normalize_without_sub(text) == strip(split_first(text, "{"))

\* the clean-up of the joined text: re.sub, split('{')[0], strip
normalize_signature(text) == strip(split_first(sub_ws(text), "{"))

\* the body of the try block: open() raises for a path that cannot be read
signature_try(f, n) ==
    IF ~f.exists
    THEN [raised |-> TRUE, value |-> <<>>, signature_lines |-> <<>>]
    ELSE LET ls == scan_signature_lines(f.lines, n) IN
         [raised |-> FALSE, value |-> normalize_signature(join(ls)), signature_lines |-> ls]

\* extract_function_signature without the except clause
extract_signature_uncaught(f, n) == signature_try(f, n)

\* extract_function_signature: `except Exception: return ""`
extract_function_signature(f, n) ==
    LET r == signature_try(f, n) IN
    IF r.raised THEN [raised |-> FALSE, value |-> <<>>, signature_lines |-> <<>>] ELSE r

-----------------------------------------------------------------------------
(* SourceDiffAnalyzer.extract_struct_fields *)

s_struct == <<"s", "t", "r", "u", "c", "t">>

\* one pass of the body of the for loop of extract_struct_fields, on the line of
\* index i (zero-based); st holds the locals, the index of the last line looked
\* at and whether `break` has ended the loop
fields_step(lines, struct_name, st, i) ==
    IF st.done THEN st
    ELSE LET line == strip(lines[i + 1]) IN
         IF /\ Contains(line, s_struct)
            /\ Contains(line, struct_name)
            /\ Contains(line, <<"{">>)
         THEN [st EXCEPT !.in_struct = TRUE, !.brace_count = 1, !.last_i = i]
         ELSE IF ~st.in_struct
         THEN [st EXCEPT !.last_i = i]
         ELSE LET depth == st.brace_count + count(line, "{") - count(line, "}")
                  field == strip(split_first(line, ";"))
              IN IF depth = 0
                 THEN [st EXCEPT !.brace_count = depth, !.last_i = i, !.done = TRUE]
                 ELSE [st EXCEPT !.brace_count = depth, !.last_i = i,
                                 !.fields = IF /\ Contains(line, <<";">>)
                                               /\ ~startswith(line, <<"/", "/">>)
                                               /\ field # <<>>
                                               /\ ~startswith(field, <<"/", "*">>)
                                            THEN Append(st.fields, field)
                                            ELSE st.fields]

\* the for loop of extract_struct_fields over range(lo, hi): the passes are
\* applied in ascending order of the index
RECURSIVE fields_scan(_, _, _, _, _)
fields_scan(lines, struct_name, lo, hi, st) ==
    IF lo >= hi THEN st
    ELSE IF hi - lo = 1 THEN fields_step(lines, struct_name, st, lo)
    ELSE LET mid == (lo + hi) \div 2
             left == fields_scan(lines, struct_name, lo, mid, st)
         IN IF left.done THEN left
            ELSE fields_scan(lines, struct_name, mid, hi, left)

\* the body of the try block
fields_try(f, struct_name, n) ==
    IF ~f.exists
    THEN [raised |-> TRUE, value |-> <<>>, last_i |-> -1]
    ELSE LET r == fields_scan(f.lines, struct_name, Max(0, n - 1),
                              Min(Len(f.lines), n + StructWindow),
                              [fields |-> <<>>, in_struct |-> FALSE, brace_count |-> 0,
                               last_i |-> Max(0, n - 1) - 1, done |-> FALSE])
         IN [raised |-> FALSE, value |-> r.fields, last_i |-> r.last_i]

\* extract_struct_fields: `except Exception: return []`
extract_struct_fields(f, struct_name, n) ==
    LET r == fields_try(f, struct_name, n) IN
    IF r.raised THEN [raised |-> FALSE, value |-> <<>>, last_i |-> -1] ELSE r

-----------------------------------------------------------------------------
(* SourceDiffAnalyzer.compare_struct_fields *)

\* set(fields): the elements of a list
set(fields_list) == {fields_list[i] : i \in 1..Len(fields_list)}

\* list(s): the elements of a set in the order in which the set is iterated.
\* The order follows the hashes of the strings, which differ from one
\* interpreter run to the next, so every order is a possible value.
list(elements) ==
    {l \in [1..Cardinality(elements) -> elements] :
        \A i, j \in 1..Cardinality(elements) : l[i] = l[j] => i = j}

is_reordered_any_difference(old_fields_, new_fields_, i) ==
    old_fields_[i + 1] # new_fields_[i + 1]

\* the test of the zip loop at zero-based index i
is_reordered(old_fields_, new_fields_, i) ==
    /\ old_fields_[i + 1] # new_fields_[i + 1]
    /\ old_fields_[i + 1] \in set(new_fields_)
    /\ new_fields_[i + 1] \in set(old_fields_)

modified_entry_one_based(old_fields_, new_fields_, i) ==
    [position |-> i + 1, old |-> old_fields_[i + 1], new |-> new_fields_[i + 1],
     change |-> "reordered"]

\* the record appended for zero-based index i
modified_entry(old_fields_, new_fields_, i) ==
    [position |-> i, old |-> old_fields_[i + 1], new |-> new_fields_[i + 1],
     change |-> "reordered"]

\* the loop over enumerate(zip(old_fields, new_fields)) from index i on
RECURSIVE modified_from(_, _, _)
modified_from(old_fields_, new_fields_, i) ==
    IF i >= Min(Len(old_fields_), Len(new_fields_)) THEN <<>>
    ELSE (IF is_reordered(old_fields_, new_fields_, i)
          THEN <<modified_entry(old_fields_, new_fields_, i)>>
          ELSE <<>>)
         \o modified_from(old_fields_, new_fields_, i + 1)

\* the values compare_struct_fields can return for the two lists: one for
\* each iteration order of the two set differences
compare_struct_fields(old_fields_, new_fields_) ==
    LET old_set == set(old_fields_)
        new_set == set(new_fields_)
    IN {[added |-> added, removed |-> removed,
         modified |-> modified_from(old_fields_, new_fields_, 0)] :
            added \in list(new_set \ old_set), removed \in list(old_set \ new_set)}

-----------------------------------------------------------------------------
(* KernelAPIAnalyzer._analyze_functions *)

\* str.split(): the maximal runs of non-whitespace characters
RECURSIVE split(_)
split(text) ==
    LET t == strip(text) IN
    IF t = <<>> THEN <<>>
    ELSE LET stops == {i \in 1..Len(t) : t[i] \in Whitespace}
             k == IF stops = {} THEN Len(t) + 1
                  ELSE CHOOSE i \in stops : \A j \in stops : i <= j
         IN <<SubSeq(t, 1, k - 1)>> \o split(SubSeq(t, k, Len(t)))

\* sig.split('(')[0].strip().split()[-1]: the last word before the first `(`;
\* indexing the empty list raises IndexError
return_type(sig) ==
    LET words == split(strip(split_first(sig, "("))) IN
    IF words = <<>> THEN [raised |-> TRUE, value |-> <<>>]
    ELSE [raised |-> FALSE, value |-> words[Len(words)]]

\* the record appended for a name that is only in the new index
added_record(name, new_func) ==
    [name |-> name, change_type |-> "added", file |-> new_func.file,
     line |-> new_func.line, signature |-> new_func.signature]

\* the record appended for a name that is only in the old index
removed_record(name, old_func) ==
    [name |-> name, change_type |-> "removed", file |-> old_func.file,
     line |-> old_func.line, signature |-> old_func.signature]

\* the record appended for a name in both indexes whose signatures differ
modified_record(name, old_func, new_func, old_sig_, new_sig_) ==
    LET old_return == return_type(old_sig_).value
        new_return == return_type(new_sig_).value
    IN [name |-> name, change_type |-> "modified", file |-> new_func.file,
        old_signature |-> old_sig_, new_signature |-> new_sig_,
        old_line |-> old_func.line, new_line |-> new_func.line,
        return_type_changed |-> old_return # new_return,
        old_return_type |-> old_return, new_return_type |-> new_return,
        parameter_changes |->
            compare_function_parameters(parse_function_parameters(old_sig_),
                                        parse_function_parameters(new_sig_))]

-----------------------------------------------------------------------------
(* KernelAPIAnalyzer._analyze_structs *)

\* the record appended for a struct that is only in the new index
added_struct_record(name, new_struct) ==
    [name |-> name, change_type |-> "added", file |-> new_struct.file]

\* the record appended for a struct that is only in the old index
removed_struct_record(name, old_struct) ==
    [name |-> name, change_type |-> "removed", file |-> old_struct.file]

\* the record appended for a struct in both indexes whose field lists differ
modified_struct_record(name, new_struct, field_changes_) ==
    [name |-> name, change_type |-> "modified", file |-> new_struct.file,
     field_changes |-> field_changes_]

-----------------------------------------------------------------------------
(* ABIImpactAnalyzer *)

None == [type |-> "None"]

\* dict.get(key, default)
get(dict, key, default) == IF key \in DOMAIN dict THEN dict[key] ELSE default

\* the entries of a parameter diff with the given type
of_type(param_changes, type) == SelectSeq(param_changes, LAMBDA p : p.type = type)

\* type_changes with the renamed parameters counted in
type_changes_with_names(param_changes) ==
    SelectSeq(param_changes,
              LAMBDA p : p.type \in {"param_type_change", "param_name_change"})

\* type_changes cut after its first entry
type_changes_first_only(param_changes) ==
    LET entries == of_type(param_changes, "param_type_change") IN
    IF entries = <<>> THEN <<>> ELSE <<entries[1]>>

type_changes(param_changes) == of_type(param_changes, "param_type_change")

_analyze_function_abi_impact(func) ==
    LET param_changes == get(func, "parameter_changes", <<>>)
        count_changes == of_type(param_changes, "param_count_change")
        breaking_reasons ==
            (IF count_changes # <<>> THEN <<"Parameter count changed">> ELSE <<>>)
            \o (IF type_changes(param_changes) # <<>>
                THEN <<ToString(Len(type_changes(param_changes)))
                         \o " parameter type(s) changed">>
                ELSE <<>>)
            \o (IF get(func, "return_type_changed", FALSE)
                THEN <<"Return type changed">> ELSE <<>>)
    IN IF breaking_reasons # <<>>
       THEN [type |-> "function", name |-> func.name, file |-> func.file,
             severity |-> "high", reasons |-> breaking_reasons,
             recommendation |-> "Update all callers"]
       ELSE None

\* `if fc.get('modified')` reading the key 'reordered'
fields_reordered_other_key(fc) == get(fc, "reordered", <<>>) # <<>>

\* if fc.get('modified')
fields_reordered(fc) == get(fc, "modified", <<>>) # <<>>

\* the severity with an added field counted like a removed one
struct_severity_added_high(fc) ==
    IF get(fc, "removed", <<>>) # <<>> \/ get(fc, "added", <<>>) # <<>>
    THEN "high" ELSE "medium"

\* 'high' if fc.get('removed') else 'medium'
struct_severity(fc) == IF get(fc, "removed", <<>>) # <<>> THEN "high" ELSE "medium"

_analyze_struct_abi_impact(struct) ==
    LET fc == get(struct, "field_changes", <<>>)
        breaking_reasons ==
            (IF get(fc, "removed", <<>>) # <<>> THEN <<"Fields removed">> ELSE <<>>)
            \o (IF fields_reordered(fc) THEN <<"Fields reordered">> ELSE <<>>)
            \o (IF get(fc, "added", <<>>) # <<>>
                THEN <<"Fields added (potential ABI break)">> ELSE <<>>)
    IN IF breaking_reasons # <<>>
       THEN [type |-> "structure", name |-> struct.name, file |-> struct.file,
             severity |-> struct_severity(fc),
             reasons |-> breaking_reasons,
             recommendation |-> "Review all users of this structure"]
       ELSE None

\* the records one loop of analyze_abi_impact appends for a list of records
struct_impacts(structs) ==
    LET modified == SelectSeq(structs, LAMBDA r : r.change_type = "modified")
        impacts == [i \in 1..Len(modified) |-> _analyze_struct_abi_impact(modified[i])]
    IN SelectSeq(impacts, LAMBDA impact : impact # None)

\* function_impacts without the `if impact` test
function_impacts_unfiltered(funcs) ==
    LET modified == SelectSeq(funcs, LAMBDA r : r.change_type = "modified") IN
    [i \in 1..Len(modified) |-> _analyze_function_abi_impact(modified[i])]

function_impacts(funcs) ==
    LET modified == SelectSeq(funcs, LAMBDA r : r.change_type = "modified")
        impacts == [i \in 1..Len(modified) |-> _analyze_function_abi_impact(modified[i])]
    IN SelectSeq(impacts, LAMBDA impact : impact # None)

\* self.abi_breaking_changes after one more call of analyze_abi_impact, which is
\* also what the call returns
analyze_abi_impact(changes_, breaking) ==
    breaking \o struct_impacts(get(changes_, "structs", <<>>))
             \o function_impacts(get(changes_, "functions", <<>>))

generate_abi_report(breaking) ==
    [total_breaking_changes |-> Len(breaking),
     high_severity |-> Len(SelectSeq(breaking, LAMBDA c : c.severity = "high")),
     medium_severity |-> Len(SelectSeq(breaking, LAMBDA c : c.severity = "medium")),
     changes |-> breaking]

-----------------------------------------------------------------------------
(* Inputs *)

s_int == <<"i", "n", "t">>

s_long == <<"l", "o", "n", "g">>

s_char == <<"c", "h", "a", "r">>

s_dots == <<".", ".", ".">>

Sp == <<" ">>

Comma == <<",">>

\* a header whose parenthesised parameter text is t
WrapCall(t) == <<"f", "(">> \o t \o <<")">>

\* the pieces the enumerated parameter texts are built from
Tokens ==
    {<<"a">>, <<"b">>, Sp, Comma, <<"*">>, <<"(">>, <<")">>, <<"[">>, <<"]">>,
     s_void, s_dots}

RECURSIVE Texts(_)
Texts(n) ==
    IF n = 0 THEN {<<>>}
    ELSE LET shorter == Texts(n - 1) IN
         shorter \cup {t \o k : t \in shorter, k \in Tokens}

\* parameter texts named by the specification's examples
ex_int_a == s_int \o Sp \o <<"a">>

ex_int_b == s_int \o Sp \o <<"b">>

ex_long_a == s_long \o Sp \o <<"a">>

ex_long_b == s_long \o Sp \o <<"b">>

ex_char_p_b == s_char \o Sp \o <<"*", "b">>

ex_char_pp_b == s_char \o Sp \o <<"*", "*", "b">>

ex_int_a_char_b == ex_int_a \o Comma \o Sp \o ex_char_p_b

ex_const_char_p_s == <<"c", "o", "n", "s", "t">> \o Sp \o s_char \o Sp \o <<"*", "s">>

ex_cb == s_int \o Sp \o <<"(", "*", "c", "b", ")", "(">> \o s_int \o Comma \o Sp
         \o s_int \o <<")">> \o Comma \o Sp \o s_long \o Sp \o <<"n">>

ex_variadic == ex_int_a \o Comma \o Sp \o s_dots

ex_trailing == ex_int_a \o Comma \o Sp

ex_unbalanced == s_int \o Sp \o <<"a", "[">> \o Comma \o Sp \o ex_int_b

ex_spaced_void == Sp \o s_void \o <<"\t">>

ex_newline == <<"a", "\n">> \o Comma \o <<"b", ")", "(", "c">>

ExampleTexts ==
    {ex_int_a, ex_int_a_char_b, ex_const_char_p_s, ex_char_pp_b, ex_cb, ex_variadic, ex_trailing,
     ex_unbalanced, ex_spaced_void, ex_newline}

ParseInputs ==
    LET texts == Texts(MaxTokens) \cup ExampleTexts IN
    texts \cup {WrapCall(t) : t \in texts}

\* the parameters compare_function_parameters is enumerated on, as the parser
\* builds them
ParamUniverse ==
    {_parse_single_param(f) : f \in {s_int, s_long, ex_int_a, ex_int_b, ex_long_a}}

RECURSIVE ParamLists(_)
ParamLists(n) ==
    IF n = 0 THEN {<<>>}
    ELSE LET shorter == ParamLists(n - 1) IN
         shorter \cup {Append(l, p) : l \in shorter, p \in ParamUniverse}

\* the signature texts the function loop is enumerated on
Signatures ==
    {WrapCall(t) : t \in {<<>>, s_void, ex_int_a, ex_int_b, ex_long_a, ex_long_b,
                          ex_char_p_b, ex_char_pp_b, ex_int_a_char_b, ex_cb,
                          ex_variadic, ex_unbalanced}}


\* the struct the field extractor is asked for
StructName == <<"a", "b">>

\* the lines the enumerated source files are built from
LineKinds ==
    {<<"i", "n", "t", " ", "f", "(", "i", "n", "t", " ", "a", ")">>,
     <<" ", " ", "i", "n", "t", " ", " ", "f", "(", "i", "n", "t", " ", "a", ")", "\t", "{">>,
     <<"l", "o", "n", "g", " ", "f", "(", "v", "o", "i", "d", ")", ";">>,
     <<"s", "t", "r", "u", "c", "t", " ", "a", "b", " ", "{">>,
     <<"i", "n", "t", " ", "x", ";">>,
     <<"}", ";">>,
     <<>>}

RECURSIVE FilesUpTo(_)
FilesUpTo(n) ==
    IF n = 0 THEN {<<>>}
    ELSE LET shorter == FilesUpTo(n - 1) IN
         shorter \cup {Append(f, l) : f \in shorter, l \in LineKinds}

SmallFiles == {NoFile} \cup {[exists |-> TRUE, lines |-> f] : f \in FilesUpTo(MaxLines)}

\* a declaration with n blank lines between the line of its first parameter
\* and the line of its last one, which ends in `{`
LongDeclaration(n) ==
    <<<<"i", "n", "t", " ", "f", "(", "i", "n", "t", " ", "a", ",">>>>
    \o [k \in 1..n |-> <<>>]
    \o <<<<"i", "n", "t", " ", "c", ")", " ", "{">>>>

\* a struct with n members
LongStruct(n) ==
    <<<<"s", "t", "r", "u", "c", "t", " ", "a", "b", " ", "{">>>> \o [k \in 1..n |-> <<"i", "n", "t", " ", "x", ";">>] \o <<<<"}", ";">>>>

\* a struct with a nested struct between two of its members; the name of the
\* nested struct is the given one
NestedStruct(inner_name) ==
    <<<<"s", "t", "r", "u", "c", "t", " ", "a", "b", " ", "{">>,
      <<"i", "n", "t", " ", "x", ";">>,
      <<"s", "t", "r", "u", "c", "t", " ">> \o inner_name \o <<" ", "{">>,
      <<"i", "n", "t", " ", "y", ";">>,
      <<"}", " ", "u", ";">>,
      <<"i", "n", "t", " ", "z", ";">>,
      <<"}", ";">>>>

\* nested structs whose name contains the name looked for, and does not
NestedFiles ==
    {[exists |-> TRUE, lines |-> NestedStruct(inner_name)] :
        inner_name \in {<<"c", "a", "b">>, <<"c", "d">>}}

\* files that end just before, at and just after the end of the scan ranges
LongFiles ==
    {[exists |-> TRUE, lines |-> LongDeclaration(n)] :
        n \in (FunctionWindow - 2)..FunctionWindow}
    \cup {[exists |-> TRUE, lines |-> LongStruct(n)] :
        n \in (StructWindow - 2)..StructWindow}

\* field texts as extract_struct_fields returns them
field_int_x == <<"i", "n", "t", " ", "x">>
field_int_y == <<"i", "n", "t", " ", "y">>
field_long_x == <<"l", "o", "n", "g", " ", "x">>

FieldUniverse == {field_int_x, field_int_y, field_long_x}

\* the field lists of up to MaxFields entries, repeated entries included
FieldLists == UNION {[1..n -> FieldUniverse] : n \in 0..MaxFields}

\* a header with a return type
Typed(type, t) == type \o Sp \o WrapCall(t)

\* a parameter list with nothing before its `(`
ex_no_name == <<"(">> \o ex_int_a \o <<")">>

\* the signature texts the function loop is enumerated on, as a list
SignatureList ==
    <<WrapCall(<<>>), WrapCall(s_void), WrapCall(ex_int_a), WrapCall(ex_int_b),
      WrapCall(ex_long_a), WrapCall(ex_long_b), WrapCall(ex_char_p_b),
      WrapCall(ex_char_pp_b), WrapCall(ex_int_a_char_b), WrapCall(ex_cb),
      WrapCall(ex_variadic), WrapCall(ex_unbalanced),
      Typed(s_int, ex_int_a), Typed(s_long, ex_int_a), Typed(s_int, ex_int_b),
      ex_no_name>>

\* the source file of the two kernel trees: one declaration per line
SourceLines == [k \in 1..Len(SignatureList) |-> SignatureList[k] \o Sp \o <<"{">>]

SourcePath == <<"a", ".", "c">>

\* a path the tag index names and the trees do not hold
MissingPath == <<"b", ".", "c">>

\* the header of the two kernel trees that declares the structs: struct ab
\* with the members x; x, x; x, y; y, x and struct cd
StructLines ==
    <<<<"s", "t", "r", "u", "c", "t", " ", "a", "b", " ", "{">>,
      <<"i", "n", "t", " ", "x", ";">>,
      <<"}", ";">>,
      <<"s", "t", "r", "u", "c", "t", " ", "a", "b", " ", "{">>,
      <<"i", "n", "t", " ", "x", ";">>,
      <<"i", "n", "t", " ", "x", ";">>,
      <<"}", ";">>,
      <<"s", "t", "r", "u", "c", "t", " ", "a", "b", " ", "{">>,
      <<"i", "n", "t", " ", "x", ";">>,
      <<"i", "n", "t", " ", "y", ";">>,
      <<"}", ";">>,
      <<"s", "t", "r", "u", "c", "t", " ", "a", "b", " ", "{">>,
      <<"i", "n", "t", " ", "y", ";">>,
      <<"i", "n", "t", " ", "x", ";">>,
      <<"}", ";">>,
      <<"s", "t", "r", "u", "c", "t", " ", "c", "d", " ", "{">>,
      <<"l", "o", "n", "g", " ", "x", ";">>,
      <<"}", ";">>>>

StructPath == <<"s", ".", "h">>

\* open(Path(kernel) / path)
kernel_file(path) ==
    IF path = SourcePath THEN [exists |-> TRUE, lines |-> SourceLines]
    ELSE IF path = StructPath THEN [exists |-> TRUE, lines |-> StructLines]
    ELSE NoFile

\* the entries a tag index can hold for a function: every line of the source
\* file, the line after its last one, and a file that is not there
TagCases ==
    {[file |-> SourcePath, line |-> n, signature |-> <<>>] :
        n \in 1..(Len(SourceLines) + 1)}
    \cup {[file |-> MissingPath, line |-> 1, signature |-> <<>>]}

\* the entries enumerated for the second function
FewTagCases ==
    {[file |-> SourcePath, line |-> 13, signature |-> <<>>],
     [file |-> MissingPath, line |-> 1, signature |-> <<>>]}

\* the entries a tag index can hold for struct ab: the first line of each of
\* its declarations, and a file that is not there
StructTagCases ==
    {[file |-> StructPath, line |-> n, signature |-> <<>>] : n \in {1, 4, 8, 12}}
    \cup {[file |-> MissingPath, line |-> 1, signature |-> <<>>]}

\* the entries enumerated for struct cd
FewStructTagCases ==
    {[file |-> StructPath, line |-> 16, signature |-> <<>>],
     [file |-> MissingPath, line |-> 1, signature |-> <<>>]}

OtherStructName == <<"c", "d">>

FunctionF == <<"f">>
FunctionG == <<"g">>

\* the old and the new entries of one name: in both indexes, in one or in none
BothIndexes(name, cases) ==
    {[old |-> {<<name, o>>}, new |-> {<<name, n>>}] : o \in cases, n \in cases}

OneIndex(name, cases) ==
    {[old |-> {<<name, o>>}, new |-> {}] : o \in cases}
    \cup {[old |-> {}, new |-> {<<name, n>>}] : n \in cases}

\* the dict with the given (name, entry) pairs
index(entries) ==
    [name \in {e[1] : e \in entries} |-> (CHOOSE e \in entries : e[1] = name)[2]]

\* the names of the records of an api_changes list, by position: the loops of
\* KernelAPIAnalyzer append at most one record for a name
SymbolNames == <<FunctionF, FunctionG, <<"h">>, <<"k">>>>

\* the pairs of declarations for which a modified record is appended
DistinctPairs(S) == {p \in S \X S : p[1] # p[2]}

ABITag == [file |-> SourcePath, line |-> 1, signature |-> <<>>]

\* the headers from which the modified function records are built
ABISignatures ==
    {Typed(s_int, ex_int_a), Typed(s_int, ex_int_b), Typed(s_long, ex_int_a),
     Typed(s_int, ex_long_a), Typed(s_int, ex_int_a_char_b),
     Typed(s_int, ex_long_a \o Comma \o Sp \o ex_long_b),
     s_int \o Sp \o <<"*">> \o WrapCall(ex_int_a)}

\* the records _analyze_functions can append for a name
FunctionRecords(name) ==
    {added_record(name, ABITag), removed_record(name, ABITag)}
    \cup {modified_record(name, ABITag, ABITag, p[1], p[2]) :
            p \in DistinctPairs(ABISignatures)}

\* the field lists from which the modified struct records are built
ABIFieldLists ==
    {<<>>, <<field_int_x>>, <<field_int_x, field_int_y>>,
     <<field_int_y, field_int_x>>, <<field_int_y, field_int_x, field_long_x>>}

\* the records _analyze_structs can append for a name
StructRecords(name) ==
    {[name |-> name, change_type |-> "added", file |-> SourcePath],
     [name |-> name, change_type |-> "removed", file |-> SourcePath]}
    \cup UNION {{[name |-> name, change_type |-> "modified", file |-> SourcePath,
                  field_changes |-> fc] : fc \in compare_struct_fields(p[1], p[2])} :
                    p \in DistinctPairs(ABIFieldLists)}

\* the lists of n records, the record at position i having the i-th name
RECURSIVE FunctionRecordLists(_)
FunctionRecordLists(n) ==
    IF n = 0 THEN {<<>>}
    ELSE {Append(l, r) : l \in FunctionRecordLists(n - 1),
                         r \in FunctionRecords(SymbolNames[n])}

RECURSIVE StructRecordLists(_)
StructRecordLists(n) ==
    IF n = 0 THEN {<<>>}
    ELSE {Append(l, r) : l \in StructRecordLists(n - 1),
                         r \in StructRecords(SymbolNames[n])}

-----------------------------------------------------------------------------
(* The state machines *)

\* parse_function_parameters applied to one header
InitParse ==
    /\ signature \in ParseInputs
    /\ params = <<>>
    /\ old_params = <<>> /\ new_params = <<>> /\ changes = <<>>
    /\ old_sig = <<>> /\ new_sig = <<>>
    /\ IdleExtract /\ IdleDiff /\ IdleABI /\ IdleLoop /\ IdleStructs /\ IdleTags /\ raised = FALSE
    /\ pc = "parse"

ParseStep ==
    /\ pc = "parse"
    /\ params' = parse_function_parameters(signature)
    /\ pc' = "parsed"
    /\ UNCHANGED <<signature, old_params, new_params, changes, old_sig, new_sig>>
    /\ UNCHANGED <<extractVars, diffVars, abiVars, loopVars, raised, structVars, tagVars>>

SpecParse == InitParse /\ [][ParseStep]_vars

\* compare_function_parameters applied to two parameter lists
InitCompare ==
    /\ old_params \in ParamLists(MaxParams)
    /\ new_params \in ParamLists(MaxParams)
    /\ changes = <<>>
    /\ signature = <<>> /\ params = <<>>
    /\ old_sig = <<>> /\ new_sig = <<>>
    /\ IdleExtract /\ IdleDiff /\ IdleABI /\ IdleLoop /\ IdleStructs /\ IdleTags /\ raised = FALSE
    /\ pc = "compare"

CompareStep ==
    /\ pc = "compare"
    /\ changes' = compare_function_parameters(old_params, new_params)
    /\ pc' = "compared"
    /\ UNCHANGED <<signature, params, old_params, new_params, old_sig, new_sig>>
    /\ UNCHANGED <<extractVars, diffVars, abiVars, loopVars, raised, structVars, tagVars>>

SpecCompare == InitCompare /\ [][CompareStep]_vars

\* KernelAPIAnalyzer._analyze_functions on one name present in both indexes,
\* from the two extracted signatures on
\* the names of the three loops of _analyze_functions
added_names == DOMAIN new_funcs \ DOMAIN old_funcs
\* old_names - new_names taken as old_names
removed_names_all_old == DOMAIN old_funcs

removed_names == DOMAIN old_funcs \ DOMAIN new_funcs
common_names == DOMAIN old_funcs \cap DOMAIN new_funcs

\* the signature extracted for a tag entry
extracted(func) == extract_function_signature(kernel_file(func.file), func.line).value

\* _analyze_functions is in one of its loops
running == pc \in {"analyze", "added", "removed", "modified", "unchanged"}

\* _analyze_functions has returned and _analyze_structs is in one of its loops
running_structs ==
    pc \in {"done", "struct_added", "struct_removed", "struct_modified", "struct_unchanged"}

NoEntries == [old |-> {}, new |-> {}]

\* the function entries of the two tag indexes
FunctionEntries ==
    {[old |-> a.old \cup b.old, new |-> a.new \cup b.new] :
        a \in BothIndexes(FunctionF, TagCases) \cup OneIndex(FunctionF, FewTagCases),
        b \in BothIndexes(FunctionG, FewTagCases) \cup OneIndex(FunctionG, FewTagCases)
                 \cup {NoEntries}}

\* the struct entries of the two tag indexes
StructEntries ==
    {[old |-> a.old \cup b.old, new |-> a.new \cup b.new] :
        a \in BothIndexes(StructName, StructTagCases)
                 \cup OneIndex(StructName, FewStructTagCases),
        b \in BothIndexes(OtherStructName, FewStructTagCases)
                 \cup OneIndex(OtherStructName, FewStructTagCases) \cup {NoEntries}}

\* the entries of the indexes that hold functions and structs
FunctionEntriesWithStructs ==
    {[old |-> a.old \cup b.old, new |-> a.new \cup b.new] :
        a \in BothIndexes(FunctionF,
                          {[file |-> SourcePath, line |-> n, signature |-> <<>>] :
                              n \in {13, 15}}),
        b \in OneIndex(FunctionG, FewTagCases) \cup {NoEntries}}

StructEntriesWithFunctions ==
    {[old |-> a.old \cup b.old, new |-> a.new \cup b.new] :
        a \in BothIndexes(StructName,
                          {[file |-> StructPath, line |-> n, signature |-> <<>>] :
                              n \in {1, 4}}),
        b \in OneIndex(OtherStructName, FewStructTagCases) \cup {NoEntries}}

\* KernelAPIAnalyzer.analyze from step 3 on: _analyze_functions, then
\* _analyze_structs. The indexes hold functions and no struct, structs and no
\* function, or a few of both.
Init ==
    /\ \E f \in FunctionEntries \cup {NoEntries}, s \in StructEntries \cup {NoEntries} :
          /\ \/ (f = NoEntries) # (s = NoEntries)
             \/ f \in FunctionEntriesWithStructs /\ s \in StructEntriesWithFunctions
          /\ old_funcs = index(f.old)
          /\ new_funcs = index(f.new)
          /\ old_structs = index(s.old)
          /\ new_structs = index(s.new)
    /\ visited_structs = {} /\ struct_changes = <<>>
    /\ visited = {} /\ functions = <<>>
    /\ old_sig = <<>> /\ new_sig = <<>>
    /\ old_params = <<>> /\ new_params = <<>> /\ changes = <<>>
    /\ signature = <<>> /\ params = <<>>
    /\ IdleExtract /\ IdleDiff /\ IdleABI /\ IdleTags /\ raised = FALSE
    /\ pc = "analyze"

\* one pass of the loop over new_names - old_names
AnalyzeAdded ==
    /\ running
    /\ \E name \in added_names \ visited :
          /\ functions' = Append(functions, added_record(name, new_funcs[name]))
          /\ visited' = visited \cup {name}
    /\ pc' = "added"
    /\ UNCHANGED <<signature, params, old_params, new_params, changes, old_sig, new_sig>>
    /\ UNCHANGED <<old_funcs, new_funcs, extractVars, diffVars, abiVars, raised, structVars, tagVars>>

\* one pass of the loop over old_names - new_names
AnalyzeRemoved ==
    /\ running
    /\ added_names \subseteq visited
    /\ \E name \in removed_names \ visited :
          /\ functions' = Append(functions, removed_record(name, old_funcs[name]))
          /\ visited' = visited \cup {name}
    /\ pc' = "removed"
    /\ UNCHANGED <<signature, params, old_params, new_params, changes, old_sig, new_sig>>
    /\ UNCHANGED <<old_funcs, new_funcs, extractVars, diffVars, abiVars, raised, structVars, tagVars>>

\* one pass of the loop over old_names & new_names: the signatures differ and
\* the record is appended
AnalyzeModified ==
    /\ running
    /\ added_names \cup removed_names \subseteq visited
    /\ \E name \in common_names \ visited :
          /\ old_sig' = extracted(old_funcs[name])
          /\ new_sig' = extracted(new_funcs[name])
          /\ old_sig' # new_sig'
          /\ old_params' = parse_function_parameters(old_sig')
          /\ new_params' = parse_function_parameters(new_sig')
          /\ changes' = compare_function_parameters(old_params', new_params')
          /\ ~return_type(old_sig').raised
          /\ ~return_type(new_sig').raised
          /\ functions' = Append(functions,
                modified_record(name, old_funcs[name], new_funcs[name], old_sig', new_sig'))
          /\ visited' = visited \cup {name}
    /\ pc' = "modified"
    /\ UNCHANGED <<signature, params>>
    /\ UNCHANGED <<old_funcs, new_funcs, extractVars, diffVars, abiVars, raised, structVars, tagVars>>

\* one pass of the loop over old_names & new_names: the signatures are equal
AnalyzeUnchanged ==
    /\ running
    /\ added_names \cup removed_names \subseteq visited
    /\ \E name \in common_names \ visited :
          /\ old_sig' = extracted(old_funcs[name])
          /\ new_sig' = extracted(new_funcs[name])
          /\ old_sig' = new_sig'
          /\ visited' = visited \cup {name}
    /\ pc' = "unchanged"
    /\ UNCHANGED <<signature, params, old_params, new_params, changes>>
    /\ UNCHANGED <<old_funcs, new_funcs, functions, extractVars, diffVars, abiVars, raised, structVars, tagVars>>

\* one pass of the loop over old_names & new_names: the signatures differ and
\* taking the return type of one of them raises IndexError, which nothing
\* catches: _analyze_functions is left with the records appended so far
AnalyzeRaises ==
    /\ running
    /\ added_names \cup removed_names \subseteq visited
    /\ \E name \in common_names \ visited :
          /\ old_sig' = extracted(old_funcs[name])
          /\ new_sig' = extracted(new_funcs[name])
          /\ old_sig' # new_sig'
          /\ old_params' = parse_function_parameters(old_sig')
          /\ new_params' = parse_function_parameters(new_sig')
          /\ changes' = compare_function_parameters(old_params', new_params')
          /\ return_type(old_sig').raised \/ return_type(new_sig').raised
          /\ visited' = visited \cup {name}
    /\ raised' = TRUE
    /\ pc' = "raised"
    /\ UNCHANGED <<signature, params>>
    /\ UNCHANGED <<old_funcs, new_funcs, functions, extractVars, diffVars, abiVars, structVars, tagVars>>

\* the three loops have run through: _analyze_functions returns
AnalyzeDone ==
    /\ running
    /\ visited = DOMAIN old_funcs \cup DOMAIN new_funcs
    /\ pc' = "done"
    /\ UNCHANGED <<signature, params, old_params, new_params, changes, old_sig, new_sig>>
    /\ UNCHANGED <<loopVars, extractVars, diffVars, abiVars, raised, structVars, tagVars>>

\* the names of the three loops of _analyze_structs
added_struct_names == DOMAIN new_structs \ DOMAIN old_structs
removed_struct_names == DOMAIN old_structs \ DOMAIN new_structs
common_struct_names == DOMAIN old_structs \cap DOMAIN new_structs

\* the field list extracted for a tag entry
extracted_fields(name, struct) ==
    extract_struct_fields(kernel_file(struct.file), name, struct.line).value

\* one pass of the loop over new_names - old_names
StructAdded ==
    /\ running_structs
    /\ \E name \in added_struct_names \ visited_structs :
          /\ struct_changes' =
                Append(struct_changes, added_struct_record(name, new_structs[name]))
          /\ visited_structs' = visited_structs \cup {name}
    /\ pc' = "struct_added"
    /\ UNCHANGED <<signature, params, old_params, new_params, changes, old_sig, new_sig>>
    /\ UNCHANGED <<old_structs, new_structs>>
    /\ UNCHANGED <<loopVars, extractVars, diffVars, abiVars, tagVars, raised>>

\* one pass of the loop over old_names - new_names
StructRemoved ==
    /\ running_structs
    /\ added_struct_names \subseteq visited_structs
    /\ \E name \in removed_struct_names \ visited_structs :
          /\ struct_changes' =
                Append(struct_changes, removed_struct_record(name, old_structs[name]))
          /\ visited_structs' = visited_structs \cup {name}
    /\ pc' = "struct_removed"
    /\ UNCHANGED <<signature, params, old_params, new_params, changes, old_sig, new_sig>>
    /\ UNCHANGED <<old_structs, new_structs>>
    /\ UNCHANGED <<loopVars, extractVars, diffVars, abiVars, tagVars, raised>>

\* one pass of the loop over old_names & new_names: the field lists differ and
\* the record is appended with a value compare_struct_fields can return
StructModified ==
    /\ running_structs
    /\ added_struct_names \cup removed_struct_names \subseteq visited_structs
    /\ \E name \in common_struct_names \ visited_structs :
          /\ old_fields' = extracted_fields(name, old_structs[name])
          /\ new_fields' = extracted_fields(name, new_structs[name])
          /\ old_fields' # new_fields'
          /\ \E fc \in compare_struct_fields(old_fields', new_fields') :
                /\ field_changes' = <<fc>>
                /\ struct_changes' =
                      Append(struct_changes,
                             modified_struct_record(name, new_structs[name], fc))
          /\ visited_structs' = visited_structs \cup {name}
    /\ pc' = "struct_modified"
    /\ UNCHANGED <<signature, params, old_params, new_params, changes, old_sig, new_sig>>
    /\ UNCHANGED <<old_structs, new_structs>>
    /\ UNCHANGED <<loopVars, extractVars, abiVars, tagVars, raised>>

\* one pass of the loop over old_names & new_names: the field lists are equal
StructUnchanged ==
    /\ running_structs
    /\ added_struct_names \cup removed_struct_names \subseteq visited_structs
    /\ \E name \in common_struct_names \ visited_structs :
          /\ old_fields' = extracted_fields(name, old_structs[name])
          /\ new_fields' = extracted_fields(name, new_structs[name])
          /\ old_fields' = new_fields'
          /\ visited_structs' = visited_structs \cup {name}
    /\ pc' = "struct_unchanged"
    /\ UNCHANGED <<signature, params, old_params, new_params, changes, old_sig, new_sig>>
    /\ UNCHANGED <<old_structs, new_structs, struct_changes, field_changes>>
    /\ UNCHANGED <<loopVars, extractVars, abiVars, tagVars, raised>>

\* the three loops have run through: _analyze_structs returns
StructsDone ==
    /\ running_structs
    /\ visited_structs = DOMAIN old_structs \cup DOMAIN new_structs
    /\ pc' = "structs_done"
    /\ UNCHANGED <<signature, params, old_params, new_params, changes, old_sig, new_sig>>
    /\ UNCHANGED <<loopVars, structVars, extractVars, diffVars, abiVars, tagVars, raised>>

Next ==
    \/ AnalyzeAdded
    \/ AnalyzeRemoved
    \/ AnalyzeModified
    \/ AnalyzeUnchanged
    \/ AnalyzeRaises
    \/ AnalyzeDone
    \/ StructAdded
    \/ StructRemoved
    \/ StructModified
    \/ StructUnchanged
    \/ StructsDone

Spec == Init /\ [][Next]_vars


\* extract_function_signature or extract_struct_fields applied to one file
InitExtract ==
    /\ \/ file \in SmallFiles /\ line_num \in 0..(MaxLines + 1)
       \/ file \in LongFiles /\ line_num \in {1, 2}
       \/ file \in NestedFiles /\ line_num \in {1, 2}
    /\ signature = <<>> /\ signature_lines = <<>>
    /\ fields = <<>> /\ last_i = -1
    /\ raised = FALSE
    /\ params = <<>> /\ old_params = <<>> /\ new_params = <<>> /\ changes = <<>>
    /\ old_sig = <<>> /\ new_sig = <<>>
    /\ IdleDiff /\ IdleABI /\ IdleLoop /\ IdleStructs /\ IdleTags
    /\ pc = "extract"

ExtractSignature ==
    /\ pc = "extract"
    /\ LET r == extract_function_signature(file, line_num) IN
       /\ signature' = r.value
       /\ signature_lines' = r.signature_lines
       /\ raised' = r.raised
    /\ pc' = "signature"
    /\ UNCHANGED <<file, line_num, fields, last_i>>
    /\ UNCHANGED <<params, old_params, new_params, changes, old_sig, new_sig>>
    /\ UNCHANGED <<diffVars, abiVars, loopVars, structVars, tagVars>>

ExtractFields ==
    /\ pc = "extract"
    /\ LET r == extract_struct_fields(file, StructName, line_num) IN
       /\ fields' = r.value
       /\ last_i' = r.last_i
       /\ raised' = r.raised
    /\ pc' = "fields"
    /\ UNCHANGED <<file, line_num, signature, signature_lines>>
    /\ UNCHANGED <<params, old_params, new_params, changes, old_sig, new_sig>>
    /\ UNCHANGED <<diffVars, abiVars, loopVars, structVars, tagVars>>

NextExtract == ExtractSignature \/ ExtractFields

SpecExtract == InitExtract /\ [][NextExtract]_vars

\* compare_struct_fields evaluated up to MaxEvaluations times on one pair of
\* field lists
InitFieldDiff ==
    /\ old_fields \in FieldLists
    /\ new_fields \in FieldLists
    /\ field_changes = <<>>
    /\ signature = <<>> /\ params = <<>>
    /\ old_params = <<>> /\ new_params = <<>> /\ changes = <<>>
    /\ old_sig = <<>> /\ new_sig = <<>>
    /\ IdleExtract /\ IdleABI /\ IdleLoop /\ IdleStructs /\ IdleTags
    /\ raised = FALSE
    /\ pc = "diff"

CompareFields ==
    /\ pc = "diff"
    /\ Len(field_changes) < MaxEvaluations
    /\ \E r \in compare_struct_fields(old_fields, new_fields) :
          field_changes' = Append(field_changes, r)
    /\ UNCHANGED <<old_fields, new_fields, pc, raised>>
    /\ UNCHANGED <<signature, params, old_params, new_params, changes, old_sig, new_sig>>
    /\ UNCHANGED <<extractVars, abiVars, loopVars, structVars, tagVars>>

NextFieldDiff == CompareFields

SpecFieldDiff == InitFieldDiff /\ [][NextFieldDiff]_vars

\* an ABIImpactAnalyzer built on the change lists of a KernelAPIAnalyzer, and
\* analyze_abi_impact called on it up to MaxCalls times
InitABI ==
    /\ \E nf \in 0..MaxRecords : \E ns \in 0..(MaxRecords - nf) :
          \E funcs \in FunctionRecordLists(nf),
             structs \in StructRecordLists(ns) :
                api_changes = [functions |-> funcs, structs |-> structs]
    /\ abi_breaking_changes = <<>>
    /\ abi_calls = 0
    /\ signature = <<>> /\ params = <<>>
    /\ old_params = <<>> /\ new_params = <<>> /\ changes = <<>>
    /\ old_sig = <<>> /\ new_sig = <<>>
    /\ IdleExtract /\ IdleDiff /\ IdleLoop /\ IdleStructs /\ IdleTags
    /\ raised = FALSE
    /\ pc = "abi"

AnalyzeABIImpact ==
    /\ pc = "abi"
    /\ abi_calls < MaxCalls
    /\ abi_breaking_changes' = analyze_abi_impact(api_changes, abi_breaking_changes)
    /\ abi_calls' = abi_calls + 1
    /\ UNCHANGED <<api_changes, pc, raised>>
    /\ UNCHANGED <<signature, params, old_params, new_params, changes, old_sig, new_sig>>
    /\ UNCHANGED <<extractVars, diffVars, loopVars, structVars, tagVars>>

NextABI == AnalyzeABIImpact

SpecABI == InitABI /\ [][NextABI]_vars

-----------------------------------------------------------------------------
(* compare_ctags.parse_ctags_json *)

\* str.endswith(suffix)
endswith(text, suffix) ==
    /\ Len(text) >= Len(suffix)
    /\ SubSeq(text, Len(text) - Len(suffix) + 1, Len(text)) = suffix

\* path.endswith((".h", ".H"))
is_header(path) == endswith(path, <<".", "h">>) \/ endswith(path, <<".", "H">>)

\* symbols[name] = tag
stored(symbols_, tag) ==
    [name \in DOMAIN symbols_ \cup {tag.name} |->
        IF name = tag.name THEN tag ELSE symbols_[name]]

\* the prioritisation with the last tag of a name always stored
store_tag_last_wins(symbols_, tag) == stored(symbols_, tag)

\* the if / else of the prioritisation, for a tag that has a name
store_tag(symbols_, tag) ==
    IF tag.name \notin DOMAIN symbols_ THEN stored(symbols_, tag)
    ELSE LET current_path == get(symbols_[tag.name], "path", <<>>)
             new_path == get(tag, "path", <<>>)
             is_current_header == is_header(current_path)
             is_new_header == is_header(new_path)
         IN IF is_new_header /\ ~is_current_header THEN stored(symbols_, tag)
            ELSE IF ~is_new_header /\ is_current_header THEN symbols_
            ELSE stored(symbols_, tag)

\* the lines a tags file can have: a line that is not JSON, a JSON value that
\* is not an object, and objects: a pseudo-tag, tags without a name, tags of
\* f and g under several paths and a tag of f without a path
TagPaths == {<<"a", ".", "h">>, <<"a", ".", "H">>, <<"a", ".", "c">>, <<"h">>}

TagObjects ==
    {[_type |-> "ptag", name |-> FunctionF, path |-> <<"a", ".", "h">>],
     [_type |-> "tag", name |-> <<>>, path |-> <<"a", ".", "h">>],
     [_type |-> "tag", path |-> <<"a", ".", "h">>],
     [_type |-> "tag", name |-> FunctionF]}
    \cup {[_type |-> "tag", name |-> name, path |-> path] :
             name \in {FunctionF, FunctionG}, path \in TagPaths}

TagLineKinds ==
    {[json |-> "malformed"], [json |-> "value"]}
    \cup {[json |-> "object", tag |-> tag] : tag \in TagObjects}

\* the object of a line with the number of the line as its "line" field
numbered(tag, k) ==
    [key \in DOMAIN tag \cup {"line"} |-> IF key = "line" THEN k ELSE tag[key]]

\* the k-th line of a tags file: an object tells line k of the source
file_line(kind, k) ==
    IF kind.json = "object"
    THEN [json |-> "object", tag |-> numbered(kind.tag, k)]
    ELSE kind

\* parse_ctags_json on a tags file of up to MaxTagLines lines, one line at a
\* time; tag_lines holds the lines the for loop has taken
InitTags ==
    /\ tag_lines = <<>>
    /\ lines_read = 0
    /\ symbols = <<>>
    /\ signature = <<>> /\ params = <<>>
    /\ old_params = <<>> /\ new_params = <<>> /\ changes = <<>>
    /\ old_sig = <<>> /\ new_sig = <<>>
    /\ IdleExtract /\ IdleDiff /\ IdleABI /\ IdleLoop /\ IdleStructs
    /\ raised = FALSE
    /\ pc = "tags"

\* the for loop has a line to take
reading == pc = "tags" /\ lines_read < MaxTagLines

\* json.loads raises JSONDecodeError: the line is skipped
SkipMalformed ==
    /\ reading
    /\ \E kind \in TagLineKinds :
          /\ kind.json = "malformed"
          /\ tag_lines' = Append(tag_lines, file_line(kind, lines_read + 1))
    /\ lines_read' = lines_read + 1
    /\ UNCHANGED <<symbols, pc, raised>>
    /\ UNCHANGED <<signature, params, old_params, new_params, changes, old_sig, new_sig>>
    /\ UNCHANGED <<extractVars, diffVars, abiVars, loopVars, structVars>>

\* the line is a JSON value without a get method: AttributeError, caught by
\* `except Exception`, and sys.exit(1)
ParseExit ==
    /\ reading
    /\ \E kind \in TagLineKinds : kind.json = "value"
    /\ raised' = TRUE
    /\ pc' = "exit"
    /\ UNCHANGED <<tag_lines, lines_read, symbols>>
    /\ UNCHANGED <<signature, params, old_params, new_params, changes, old_sig, new_sig>>
    /\ UNCHANGED <<extractVars, diffVars, abiVars, loopVars, structVars>>

\* tag.get("_type") != "tag"
SkipPseudoTag ==
    /\ reading
    /\ \E kind \in TagLineKinds :
          /\ kind.json = "object"
          /\ get(kind.tag, "_type", "") # "tag"
          /\ tag_lines' = Append(tag_lines, file_line(kind, lines_read + 1))
    /\ lines_read' = lines_read + 1
    /\ UNCHANGED <<symbols, pc, raised>>
    /\ UNCHANGED <<signature, params, old_params, new_params, changes, old_sig, new_sig>>
    /\ UNCHANGED <<extractVars, diffVars, abiVars, loopVars, structVars>>

\* `not name`: the tag has no name or an empty one
SkipUnnamed ==
    /\ reading
    /\ \E kind \in TagLineKinds :
          /\ kind.json = "object"
          /\ get(kind.tag, "_type", "") = "tag"
          /\ get(kind.tag, "name", <<>>) = <<>>
          /\ tag_lines' = Append(tag_lines, file_line(kind, lines_read + 1))
    /\ lines_read' = lines_read + 1
    /\ UNCHANGED <<symbols, pc, raised>>
    /\ UNCHANGED <<signature, params, old_params, new_params, changes, old_sig, new_sig>>
    /\ UNCHANGED <<extractVars, diffVars, abiVars, loopVars, structVars>>

\* the tag has a name: the prioritisation
StoreTag ==
    /\ reading
    /\ \E kind \in TagLineKinds :
          /\ kind.json = "object"
          /\ get(kind.tag, "_type", "") = "tag"
          /\ get(kind.tag, "name", <<>>) # <<>>
          /\ tag_lines' = Append(tag_lines, file_line(kind, lines_read + 1))
          /\ symbols' = store_tag(symbols, file_line(kind, lines_read + 1).tag)
    /\ lines_read' = lines_read + 1
    /\ UNCHANGED <<pc, raised>>
    /\ UNCHANGED <<signature, params, old_params, new_params, changes, old_sig, new_sig>>
    /\ UNCHANGED <<extractVars, diffVars, abiVars, loopVars, structVars>>

\* the file is read through: return symbols
ParseReturn ==
    /\ pc = "tags"
    /\ pc' = "parsed"
    /\ UNCHANGED <<tag_lines, lines_read, symbols, raised>>
    /\ UNCHANGED <<signature, params, old_params, new_params, changes, old_sig, new_sig>>
    /\ UNCHANGED <<extractVars, diffVars, abiVars, loopVars, structVars>>

NextTags ==
    \/ SkipMalformed
    \/ ParseExit
    \/ SkipPseudoTag
    \/ SkipUnnamed
    \/ StoreTag
    \/ ParseReturn

SpecTags == InitTags /\ [][NextTags]_vars

-----------------------------------------------------------------------------
(* Properties of compare_function_parameters (SpecCompare) *)

\* the indices of the records of kind k in the result
OfKind(k) == {x \in 1..Len(changes) : changes[x].type = k}

\* the indices of the records of kind k that carry position i
AtPosition(k, i) == {x \in OfKind(k) : changes[x].position = i}

CountRecord == [type |-> "param_count_change",
                old_count |-> Len(old_params), new_count |-> Len(new_params)]

\* l is s followed by at least one more element
ProperExtension(s, l) == Len(l) > Len(s) /\ SubSeq(l, 1, Len(s)) = s

\* the result for a list and its extension: the count record, then one record of
\* kind k per extra index, in ascending order, with the text of that parameter
TrailingOnly(short, long, k) ==
    /\ Len(changes) = 1 + Len(long) - Len(short)
    /\ changes[1] = CountRecord
    /\ \A i \in Len(short)..(Len(long) - 1) :
          changes[2 + i - Len(short)] =
              [type |-> k, position |-> i, param |-> long[i + 1].full]

\* C1: when new is old plus k >= 1 trailing parameters the result is exactly one
\* CountChanged{old_count, new_count} followed by k Added records, one per extra
\* index i in ascending order, with position i and the full text of new[i];
\* when old is the longer list the trailing records are Removed with old[i].
C1_TrailingExtras ==
    pc = "compared" =>
        /\ ProperExtension(old_params, new_params)
              => TrailingOnly(old_params, new_params, "param_added")
        /\ ProperExtension(new_params, old_params)
              => TrailingOnly(new_params, old_params, "param_removed")
        /\ (/\ old_params = <<_parse_single_param(ex_int_a)>>
            /\ new_params = <<_parse_single_param(ex_int_a), _parse_single_param(ex_int_b)>>)
              => changes = <<[type |-> "param_count_change", old_count |-> 1, new_count |-> 2],
                             [type |-> "param_added", position |-> 1, param |-> ex_int_b]>>

\* two parameters appended to a non-empty list have been compared
C1_Witness ==
    /\ pc = "compared"
    /\ Len(old_params) = 1
    /\ Len(new_params) = 3
    /\ ProperExtension(old_params, new_params)
    /\ Cardinality(OfKind("param_added")) = 2

\* the lists have equal length and differ only in the type at position i
OnlyTypeDiffersAt(i) ==
    /\ Len(old_params) = Len(new_params)
    /\ i \in 0..(Len(old_params) - 1)
    /\ old_params[i + 1].type # new_params[i + 1].type
    /\ old_params[i + 1].name = new_params[i + 1].name
    /\ \A j \in 1..Len(old_params) : j # i + 1 => old_params[j] = new_params[j]

\* C2: for two lists of equal length that differ only in the type at one
\* position i (names equal) the result is exactly one
\* TypeChanged{position i, old_type, new_type, name} and nothing else.
C2_SingleTypeChange ==
    pc = "compared" =>
        \A i \in 0..(Len(old_params) - 1) :
            OnlyTypeDiffersAt(i) =>
                changes = <<[type |-> "param_type_change", position |-> i,
                             old_type |-> old_params[i + 1].type,
                             new_type |-> new_params[i + 1].type,
                             param_name |-> old_params[i + 1].name]>>

\* a named parameter in the middle of a list of three has changed its type only
C2_Witness ==
    /\ pc = "compared"
    /\ Len(old_params) = 3
    /\ OnlyTypeDiffersAt(1)
    /\ old_params[2].name # <<>>
    /\ Len(changes) = 1

Overlap == 0..(Min(Len(old_params), Len(new_params)) - 1)

NamesDiffer(i) ==
    /\ old_params[i + 1].name # <<>>
    /\ new_params[i + 1].name # <<>>
    /\ old_params[i + 1].name # new_params[i + 1].name

TypesDiffer(i) == old_params[i + 1].type # new_params[i + 1].type

\* C3 as stated: at every position of the overlapping prefix at most one record
\* is emitted, a NameChanged only where the types are equal, and a position
\* whose type differs yields a TypeChanged and no NameChanged.
C3_AtMostOneRecordPerPosition ==
    pc = "compared" =>
        \A i \in Overlap :
            /\ Cardinality(AtPosition("param_type_change", i)
                           \cup AtPosition("param_name_change", i)) <= 1
            /\ AtPosition("param_name_change", i) # {} => ~TypesDiffer(i) /\ NamesDiffer(i)
            /\ TypesDiffer(i) => /\ AtPosition("param_type_change", i) # {}
                                 /\ AtPosition("param_name_change", i) = {}

\* C3 amended: at every position i of the overlapping prefix a TypeChanged is
\* emitted exactly when the types differ and a NameChanged exactly when both
\* names are non-empty and differ, whether or not the types differ; a position
\* with both yields two records, the TypeChanged directly before the NameChanged.
C3_TypeAndNameIndependent ==
    pc = "compared" =>
        \A i \in Overlap :
            /\ Cardinality(AtPosition("param_type_change", i)) = (IF TypesDiffer(i) THEN 1 ELSE 0)
            /\ Cardinality(AtPosition("param_name_change", i)) = (IF NamesDiffer(i) THEN 1 ELSE 0)
            /\ (TypesDiffer(i) /\ NamesDiffer(i)) =>
                  \E x \in AtPosition("param_type_change", i) :
                      x + 1 \in AtPosition("param_name_change", i)

\* a position whose type and name both changed has been compared
C3_Witness ==
    /\ pc = "compared"
    /\ \E i \in Overlap :
          /\ TypesDiffer(i) /\ NamesDiffer(i)
          /\ AtPosition("param_type_change", i) # {}
          /\ AtPosition("param_name_change", i) # {}

\* C4: exactly one CountChanged is emitted if the lengths differ and none if
\* they are equal; when present it is the first record and carries
\* old_count = len(old), new_count = len(new); no result holds both an Added
\* and a Removed record.
C4_CountChangedOnceAndFirst ==
    pc = "compared" =>
        /\ Cardinality(OfKind("param_count_change"))
              = (IF Len(old_params) # Len(new_params) THEN 1 ELSE 0)
        /\ Len(old_params) # Len(new_params) => changes[1] = CountRecord
        /\ ~(OfKind("param_added") # {} /\ OfKind("param_removed") # {})

\* lists of different lengths whose overlapping prefix changed as well
C4_Witness ==
    /\ pc = "compared"
    /\ Len(old_params) > Len(new_params)
    /\ OfKind("param_type_change") # {}
    /\ OfKind("param_removed") # {}
    /\ changes[1].type = "param_count_change"

-----------------------------------------------------------------------------
(* Properties of parse_function_parameters (SpecParse) *)

\* the header is f(t) for an enumerated parameter text t
IsCall(sig) == Len(sig) >= 3 /\ sig[1] = "f" /\ sig[2] = "(" /\ sig[Len(sig)] = ")"

ParamText(sig) == SubSeq(sig, 3, Len(sig) - 1)

Brackets == Openers \cup Closers

\* the bracket depth of t after its first i characters
RECURSIVE DepthAfter(_, _)
DepthAfter(t, i) ==
    IF i = 0 THEN 0
    ELSE DepthAfter(t, i - 1)
         + (IF t[i] \in Openers THEN 1 ELSE IF t[i] \in Closers THEN -1 ELSE 0)

\* every closer of t matches an earlier opener and every opener is closed
Balanced(t) ==
    /\ \A i \in 1..Len(t) : DepthAfter(t, i) >= 0
    /\ DepthAfter(t, Len(t)) = 0

\* the commas of t outside every bracket
TopCommas(t) == {i \in 1..Len(t) : t[i] = "," /\ DepthAfter(t, i) = 0}

\* the fragments of t between its top-level commas, in source order
Fragments(t) ==
    LET cuts == TopCommas(t) \cup {0, Len(t) + 1}
        nth(k) == CHOOSE c \in cuts : Cardinality({d \in cuts : d < c}) = k - 1
    IN [k \in 1..(Cardinality(cuts) - 1) |-> SubSeq(t, nth(k) + 1, nth(k + 1) - 1)]

NonBlank(f) == strip(f) # <<>>

\* the fragment holds a character of a type or a name
HasWord(f) == \E i \in 1..Len(f) : f[i] \notin Whitespace \cup Brackets \cup {",", "*"}

IsVoidOrEmpty(t) == strip(t) = <<>> \/ strip(t) = s_void

\* the whitespace-delimited tokens of a text, in order
RECURSIVE Words(_)
Words(s) ==
    LET t == strip(s) IN
    IF t = <<>> THEN <<>>
    ELSE LET ends == {i \in 1..Len(t) : t[i] \in Whitespace}
             e == IF ends = {} THEN Len(t) + 1
                  ELSE CHOOSE i \in ends : \A j \in ends : i <= j
         IN <<SubSeq(t, 1, e - 1)>> \o Words(SubSeq(t, e, Len(t)))

\* tokens joined by single spaces
RECURSIVE JoinWords(_)
JoinWords(w) ==
    IF w = <<>> THEN <<>>
    ELSE IF Len(w) = 1 THEN w[1]
    ELSE w[1] \o <<" ">> \o JoinWords(Tail(w))

Stars(s) == Cardinality({i \in 1..Len(s) : s[i] = "*"})

\* C5 as stated: the parameter list is the first parenthesised span with
\* matching parentheses and commas at nesting depth > 0 are not split points:
\* `int (*cb)(int, int), long n` yields exactly 2 parameters, and in general
\* a non-empty, non-void list yields (number of depth-0 commas) + 1 parameters.
C5_NestedCommasDoNotSplit ==
    (pc = "parsed" /\ IsCall(signature)) =>
        LET t == ParamText(signature) IN
        /\ t = ex_cb => Len(params) = 2
        /\ (/\ Balanced(t)
            /\ \A i \in 1..Len(t) : t[i] \in Brackets => t[i] \in {"(", ")"}
            /\ ~IsVoidOrEmpty(t)
            /\ \A k \in 1..Len(Fragments(t)) : HasWord(Fragments(t)[k]))
              => Len(params) = Cardinality(TopCommas(t)) + 1

C8_VoidAndEmptyYieldNothing ==
    pc = "parsed" =>
        /\ (re_search_params(signature).matched
            /\ IsVoidOrEmpty(re_search_params(signature).group1)) => params = <<>>
        /\ signature \in {<<>>, s_void} => params = <<>>
        /\ (IsCall(signature) /\ IsVoidOrEmpty(ParamText(signature))) => params = <<>>

\* a header whose parameter text is `void` between blanks has been parsed
C8_Witness ==
    /\ pc = "parsed"
    /\ signature = WrapCall(ex_spaced_void)
    /\ params = <<>>

\* C9: a `...` fragment is kept as a parameter of type `...` with an empty name
\* and an empty fragment (a trailing comma before the closing parenthesis) is
\* dropped: `(int a, ...)` yields 2 parameters and `(int a, )` yields 1.
C9_VariadicKeptEmptyDropped ==
    pc = "parsed" =>
        /\ signature = WrapCall(ex_variadic)
              => params = <<[type |-> s_int, name |-> <<"a">>, full |-> ex_int_a],
                            [type |-> s_dots, name |-> <<>>, full |-> s_dots]>>
        /\ signature = WrapCall(ex_trailing)
              => params = <<[type |-> s_int, name |-> <<"a">>, full |-> ex_int_a]>>
        /\ (/\ IsCall(signature)
            /\ \A i \in 1..Len(ParamText(signature)) : ParamText(signature)[i] \notin Brackets
            /\ ~IsVoidOrEmpty(ParamText(signature)))
              => LET f == Fragments(ParamText(signature))
                     kept(k) == Cardinality({j \in 1..k : NonBlank(f[j])})
                 IN /\ Len(params) = kept(Len(f))
                    /\ \A k \in 1..Len(f) :
                          strip(f[k]) = s_dots =>
                              params[kept(k)] = [type |-> s_dots, name |-> <<>>, full |-> s_dots]

\* a list with a variadic marker and an empty trailing fragment has been parsed
C9_Witness ==
    /\ pc = "parsed"
    /\ IsCall(signature)
    /\ \E k \in 1..Len(params) : params[k].type = s_dots
    /\ LET f == Fragments(ParamText(signature)) IN
       /\ Len(f) = 3
       /\ ~NonBlank(f[3])
       /\ Len(params) = 2

\* C10 as stated: parameter text with an opener that is never closed (such as
\* `int a[, int b`) is not lost: the result is not empty and holds a parameter
\* whose type is the whole unparsable fragment and whose name is empty.
C10_UnbalancedKeptAsOpaqueType ==
    (pc = "parsed" /\ IsCall(signature)) =>
        LET t == ParamText(signature) IN
        /\ t = ex_unbalanced
              => \E k \in 1..Len(params) :
                    params[k].name = <<>> /\ params[k].type = ex_unbalanced
        /\ (/\ \A i \in 1..Len(t) : t[i] # ")" /\ DepthAfter(t, i) >= 0
            /\ DepthAfter(t, Len(t)) > 0
            /\ ~IsVoidOrEmpty(t))
              => /\ params # <<>>
                 /\ params[Len(params)].name = <<>>

-----------------------------------------------------------------------------
(* Properties of the function loop (Spec) *)

\* C6 as stated: every leading `*` of the candidate name is moved onto the
\* type, so type plus name keep the full pointer depth of the fragment;
\* `char *b` and `char **b` decompose to different types with the name `b` in
\* both, and the change between them is reported as a TypeChanged.
C6_PointerDepthKept ==
    pc = "modified" =>
        /\ \A l \in {old_params, new_params} : \A k \in 1..Len(l) :
              /\ Stars(l[k].type) + Stars(l[k].name) = Stars(l[k].full)
              /\ (l[k].name = <<>> \/ l[k].name[1] # "*")
        /\ (old_sig = WrapCall(ex_char_p_b) /\ new_sig = WrapCall(ex_char_pp_b))
              => /\ old_params[1].name = <<"b">> /\ new_params[1].name = <<"b">>
                 /\ old_params[1].type # new_params[1].type
                 /\ \E x \in 1..Len(changes) : changes[x].type = "param_type_change"

-----------------------------------------------------------------------------
(* Properties of the extractors (SpecExtract) *)

\* the tag's line lies past the end of the file
PastEndOfFile == line_num > Len(file.lines)

\* zero-based index of the first line an extractor looks at
ScanStart == Max(0, line_num - 1)

\* the lines (one-based) of the scan range of extract_struct_fields
StructRange == (ScanStart + 1)..Min(Len(file.lines), line_num + StructWindow)

\* the lines (one-based) of the scan range of extract_function_signature
FunctionRange == (ScanStart + 1)..Min(Len(file.lines), line_num + FunctionWindow)

\* a line that opens the struct asked for
IsEntryLine(line) ==
    Contains(line, s_struct) /\ Contains(line, StructName) /\ Contains(line, <<"{">>)

\* C13: extract_function_signature and extract_struct_fields never raise: a
\* missing file or a line past end-of-file yields empty text, respectively an
\* empty field list, and extract_struct_fields also returns an empty list when
\* no entry line (with `struct`, the name and `{`) is found within the window.
C13_ExtractorsNeverRaise ==
    /\ pc \in {"signature", "fields"} => raised = FALSE
    /\ (pc = "signature" /\ (~file.exists \/ PastEndOfFile)) => signature = <<>>
    /\ (pc = "fields" /\ (~file.exists \/ PastEndOfFile)) => fields = <<>>
    /\ (pc = "fields" /\ \A k \in StructRange : ~IsEntryLine(file.lines[k]))
          => fields = <<>>

\* the signature of a file that cannot be opened has been asked for
C13_Witness ==
    /\ pc = "signature"
    /\ ~file.exists
    /\ line_num >= 1
    /\ signature = <<>>
    /\ ~raised

\* C14 as stated: when the scan window holds neither `{` nor `;` the parameter
\* list obtained from the extracted text is empty, whatever the lines contain.
C14_UnterminatedYieldsNoParameters ==
    (/\ pc = "signature"
     /\ file.exists
     /\ \A k \in FunctionRange :
           ~Contains(file.lines[k], <<"{">>) /\ ~Contains(file.lines[k], <<";">>))
        => parse_function_parameters(signature) = <<>>

\* C15 as stated: for every file length and every line >= 1,
\* extract_function_signature looks at no more than 20 lines and
\* extract_struct_fields at no more than 500, counted from max(0, line - 1).
C15_ScanWindowsBounded ==
    line_num >= 1 =>
        /\ pc = "signature" => Len(signature_lines) <= FunctionWindow
        /\ pc = "fields" => last_i - ScanStart + 1 <= StructWindow

NoWhitespaceRun(text) ==
    \A i \in 1..(Len(text) - 1) : ~(text[i] \in Whitespace /\ text[i + 1] \in Whitespace)

Trimmed(text) ==
    text = <<>> \/ (text[1] \notin Whitespace /\ text[Len(text)] \notin Whitespace)

\* C16: the text returned by extract_function_signature has no run of two or
\* more whitespace characters and no leading or trailing whitespace, applying
\* the normalization again leaves it unchanged, and the parameters of the
\* normalized header equal those of the twice normalized header.
C16_NormalizationIdempotent ==
    pc = "signature" =>
        LET h == join(signature_lines) IN
        /\ NoWhitespaceRun(signature)
        /\ Trimmed(signature)
        /\ normalize_signature(signature) = signature
        /\ parse_function_parameters(normalize_signature(h))
              = parse_function_parameters(normalize_signature(normalize_signature(h)))

\* a header with a run of blanks and a tab before its `{` has been extracted
C16_Witness ==
    /\ pc = "signature"
    /\ ~NoWhitespaceRun(join(signature_lines))
    /\ Contains(join(signature_lines), <<"\t", "{">>)
    /\ signature # <<>>
    /\ parse_function_parameters(signature) # <<>>

-----------------------------------------------------------------------------
(* Properties of compare_struct_fields (SpecFieldDiff) *)

\* new_fields is a permutation of old_fields and no entry is repeated
IsPermutation ==
    /\ Len(old_fields) = Len(new_fields)
    /\ set(old_fields) = set(new_fields)
    /\ Cardinality(set(old_fields)) = Len(old_fields)

\* the zero-based indices at which the two lists differ
Differing ==
    {i \in 0..(Min(Len(old_fields), Len(new_fields)) - 1) :
        old_fields[i + 1] # new_fields[i + 1]}

Positions(r) == {r.modified[m].position : m \in 1..Len(r.modified)}

\* C17: when new_fields is a permutation of old_fields (distinct entries),
\* added and removed are empty and the reorder list has one entry
\* {position: i, old: old[i], new: new[i]} for exactly the indices i with
\* old[i] # new[i], in ascending order of the index.
C17_PureReorder ==
    IsPermutation =>
        \A k \in 1..Len(field_changes) :
            LET r == field_changes[k] IN
            /\ r.added = <<>>
            /\ r.removed = <<>>
            /\ Len(r.modified) = Cardinality(Differing)
            /\ Positions(r) = Differing
            /\ \A m \in 1..Len(r.modified) :
                  /\ r.modified[m].old = old_fields[r.modified[m].position + 1]
                  /\ r.modified[m].new = new_fields[r.modified[m].position + 1]
            /\ \A m \in 1..(Len(r.modified) - 1) :
                  r.modified[m].position < r.modified[m + 1].position

\* three distinct fields of which two have changed places and one has stayed
C17_Witness ==
    /\ field_changes # <<>>
    /\ IsPermutation
    /\ Len(old_fields) = 3
    /\ Cardinality(Differing) = 2
    /\ Len(field_changes[1].modified) = 2

\* C18: a field whose text is in old but not in new is in removed, the text
\* that replaces it is in added and no reorder entry is recorded for it;
\* added = new minus old and removed = old minus new as sets, so the two are
\* disjoint and no reorder entry mentions a field that is added or removed.
C18_ChangedTextIsAddAndRemove ==
    \A k \in 1..Len(field_changes) :
        LET r == field_changes[k] IN
        /\ set(r.added) = set(new_fields) \ set(old_fields)
        /\ set(r.removed) = set(old_fields) \ set(new_fields)
        /\ Len(r.added) = Cardinality(set(r.added))
        /\ Len(r.removed) = Cardinality(set(r.removed))
        /\ set(r.added) \cap set(r.removed) = {}
        /\ \A m \in 1..Len(r.modified) :
              /\ r.modified[m].old \notin set(r.added) \cup set(r.removed)
              /\ r.modified[m].new \notin set(r.added) \cup set(r.removed)
        /\ \A i \in 0..(Len(old_fields) - 1) :
              old_fields[i + 1] \notin set(new_fields)
                 => /\ old_fields[i + 1] \in set(r.removed)
                    /\ i \notin Positions(r)
        /\ \A i \in 0..(Min(Len(old_fields), Len(new_fields)) - 1) :
              (/\ old_fields[i + 1] \notin set(new_fields)
               /\ new_fields[i + 1] \notin set(old_fields))
                 => new_fields[i + 1] \in set(r.added)

\* `int x` has become `long x`
C18_Witness ==
    /\ old_fields = <<field_int_x>>
    /\ new_fields = <<field_long_x>>
    /\ field_changes # <<>>
    /\ field_changes[1].added = <<field_long_x>>
    /\ field_changes[1].removed = <<field_int_x>>
    /\ field_changes[1].modified = <<>>

\* C19 as stated: two evaluations of the diff on identical inputs give
\* identical outputs, the order of the added and removed lists included.
C19_DiffDeterministic ==
    \A i, j \in 1..Len(field_changes) : field_changes[i] = field_changes[j]

-----------------------------------------------------------------------------
(* Properties of the run of _analyze_functions (Spec) *)

HasRecord(name) == \E k \in 1..Len(functions) : functions[k].name = name

\* C11 as stated: the run never raises on missing data; whatever the two
\* extractions give for a name of both indexes, _analyze_functions completes
\* without an exception.
C11_RunNeverRaises == ~raised /\ pc # "raised"

\* C12 as stated: when the run is over and a name of both indexes has no
\* record, both declarations were extracted and are identical.
C12_NoRecordMeansIdentical ==
    pc = "done" =>
        \A name \in common_names :
            ~HasRecord(name) =>
                /\ extracted(old_funcs[name]) # <<>>
                /\ extracted(new_funcs[name]) # <<>>
                /\ extracted(old_funcs[name]) = extracted(new_funcs[name])

-----------------------------------------------------------------------------
(* Properties of the ABI classification (SpecABI) *)

\* a modified function record whose parameter diff has only renamed parameters
\* and whose return type has not changed
NameOnly(func) ==
    /\ func.change_type = "modified"
    /\ ~func.return_type_changed
    /\ \A k \in 1..Len(func.parameter_changes) :
          func.parameter_changes[k].type = "param_name_change"

FindingFor(type, name) ==
    \E j \in 1..Len(abi_breaking_changes) :
        /\ abi_breaking_changes[j].type = type
        /\ abi_breaking_changes[j].name = name

\* C20: a modified function record whose parameter diff contains only
\* NameChanged entries and whose return-type-changed flag is false yields no
\* finding: analyze_abi_impact appends nothing for it.
C20_NameOnlyYieldsNoFinding ==
    \A i \in 1..Len(api_changes.functions) :
        NameOnly(api_changes.functions[i])
            => /\ _analyze_function_abi_impact(api_changes.functions[i]) = None
               /\ ~FindingFor("function", api_changes.functions[i].name)

\* analyze_abi_impact has run on a renamed parameter next to a retyped one
C20_Witness ==
    /\ abi_calls >= 1
    /\ Len(api_changes.functions) = 2
    /\ NameOnly(api_changes.functions[1])
    /\ api_changes.functions[1].parameter_changes # <<>>
    /\ FindingFor("function", FunctionG)
    /\ ~FindingFor("function", FunctionF)

\* the number of entries of a parameter diff with the given type
Entries(func, type) ==
    Cardinality({k \in 1..Len(func.parameter_changes) :
                    func.parameter_changes[k].type = type})

\* the reasons a modified function record calls for
FunctionReasons(func) ==
    (IF Entries(func, "param_count_change") > 0
     THEN <<"Parameter count changed">> ELSE <<>>)
    \o (IF Entries(func, "param_type_change") > 0
        THEN <<ToString(Entries(func, "param_type_change")) \o " parameter type(s) changed">>
        ELSE <<>>)
    \o (IF func.return_type_changed THEN <<"Return type changed">> ELSE <<>>)

Findings(type, name) ==
    {j \in 1..Len(abi_breaking_changes) :
        /\ abi_breaking_changes[j].type = type
        /\ abi_breaking_changes[j].name = name}

\* C21: a function finding is emitted if and only if the diff has a
\* CountChanged entry, a TypeChanged entry or the return-type-changed flag;
\* every function finding has severity high and the recommendation "Update all
\* callers", and its reasons are, in this order and each only when triggered,
\* "Parameter count changed", "N parameter type(s) changed" with N the number
\* of TypeChanged entries, and "Return type changed".
C21_FunctionFindingIffBreaking ==
    \A i \in 1..Len(api_changes.functions) :
        LET func == api_changes.functions[i] IN
        func.change_type = "modified" =>
            /\ (abi_calls >= 1 /\ (\/ Entries(func, "param_count_change") > 0
                                   \/ Entries(func, "param_type_change") > 0
                                   \/ func.return_type_changed))
                  <=> Findings("function", func.name) # {}
            /\ \A j \in Findings("function", func.name) :
                  /\ abi_breaking_changes[j].severity = "high"
                  /\ abi_breaking_changes[j].recommendation = "Update all callers"
                  /\ abi_breaking_changes[j].reasons = FunctionReasons(func)
                  /\ abi_breaking_changes[j].file = func.file

\* one finding with all three reasons and one for two retyped parameters
C21_Witness ==
    /\ abi_calls >= 1
    /\ Len(abi_breaking_changes) = 2
    /\ abi_breaking_changes[1].reasons =
          <<"Parameter count changed", "1 parameter type(s) changed", "Return type changed">>
    /\ abi_breaking_changes[2].reasons = <<"2 parameter type(s) changed">>

\* the modified struct records of api_changes
ModifiedStructs ==
    {i \in 1..Len(api_changes.structs) : api_changes.structs[i].change_type = "modified"}

\* C22: for every field diff that yields a finding, the severity is high if
\* and only if removed is non-empty and medium otherwise; a diff with only
\* added fields, only reordered fields, or both, yields medium.
C22_StructSeverity ==
    \A i \in ModifiedStructs :
        LET struct == api_changes.structs[i]
            fc == struct.field_changes
        IN \A j \in Findings("structure", struct.name) :
              /\ abi_breaking_changes[j].severity = "high" <=> fc.removed # <<>>
              /\ abi_breaking_changes[j].severity = "medium" <=> fc.removed = <<>>
              /\ (fc.removed = <<>> /\ (fc.added # <<>> \/ fc.modified # <<>>))
                    => abi_breaking_changes[j].severity = "medium"

\* a struct with two fields exchanged and a third one added has been classified
C22_Witness ==
    /\ abi_calls >= 1
    /\ Len(api_changes.structs) >= 1
    /\ api_changes.structs[1].change_type = "modified"
    /\ api_changes.structs[1].field_changes.added # <<>>
    /\ api_changes.structs[1].field_changes.modified # <<>>
    /\ api_changes.structs[1].field_changes.removed = <<>>
    /\ \E j \in Findings("structure", api_changes.structs[1].name) :
          abi_breaking_changes[j].severity = "medium"

\* the reasons a field diff calls for
StructReasons(fc) ==
    (IF fc.removed # <<>> THEN <<"Fields removed">> ELSE <<>>)
    \o (IF fc.modified # <<>> THEN <<"Fields reordered">> ELSE <<>>)
    \o (IF fc.added # <<>> THEN <<"Fields added (potential ABI break)">> ELSE <<>>)

\* C23: the reasons of a structure finding contain "Fields removed" iff
\* removed is non-empty, "Fields reordered" iff the reorder list is non-empty
\* and "Fields added (potential ABI break)" iff added is non-empty, in that
\* order, wherever the added field stands; the field diff is read under the
\* keys compare_struct_fields writes (added, removed, modified).
C23_StructReasons ==
    \A i \in ModifiedStructs :
        LET struct == api_changes.structs[i]
            fc == struct.field_changes
        IN /\ DOMAIN fc = {"added", "removed", "modified"}
           /\ (abi_calls >= 1 /\ StructReasons(fc) # <<>>)
                 <=> Findings("structure", struct.name) # {}
           /\ \A j \in Findings("structure", struct.name) :
                 abi_breaking_changes[j].reasons = StructReasons(fc)

\* a struct with two fields exchanged and a third one removed has been classified
C23_Witness ==
    /\ abi_calls >= 1
    /\ Len(abi_breaking_changes) >= 1
    /\ abi_breaking_changes[1].type = "structure"
    /\ abi_breaking_changes[1].reasons = <<"Fields removed", "Fields reordered">>

\* C24: after any sequence of analyze_abi_impact calls every record of
\* abi_breaking_changes has a non-empty reasons list and a severity of high or
\* medium, a diff with no reason has no record, and in the report
\* total_breaking_changes = high_severity + medium_severity = number of records.
C24_OnlyFindingsWithReasons ==
    /\ \A j \in 1..Len(abi_breaking_changes) :
          /\ abi_breaking_changes[j] # None
          /\ abi_breaking_changes[j].reasons # <<>>
          /\ abi_breaking_changes[j].severity \in {"high", "medium"}
    /\ \A i \in 1..Len(api_changes.functions) :
          (/\ api_changes.functions[i].change_type = "modified"
           /\ FunctionReasons(api_changes.functions[i]) = <<>>)
             => Findings("function", api_changes.functions[i].name) = {}
    /\ LET report == generate_abi_report(abi_breaking_changes) IN
       /\ report.total_breaking_changes = Len(abi_breaking_changes)
       /\ report.total_breaking_changes = report.high_severity + report.medium_severity
       /\ report.changes = abi_breaking_changes

\* two calls on changes with a struct that has a medium finding and a modified
\* function that has no reason
C24_Witness ==
    /\ abi_calls >= 2
    /\ generate_abi_report(abi_breaking_changes).total_breaking_changes >= 2
    /\ generate_abi_report(abi_breaking_changes).medium_severity >= 2
    /\ \E i \in 1..Len(api_changes.functions) :
          /\ api_changes.functions[i].change_type = "modified"
          /\ FunctionReasons(api_changes.functions[i]) = <<>>

\* C30 as stated: every call of analyze_abi_impact on the same analyzer returns
\* the same collection, with at most one finding for a modified record, and
\* the counts of generate_abi_report do not depend on earlier calls.
C30_ClassificationRepeatable ==
    abi_calls >= 1 =>
        /\ abi_breaking_changes = analyze_abi_impact(api_changes, <<>>)
        /\ \A i \in 1..Len(api_changes.functions) :
              Cardinality(Findings("function", api_changes.functions[i].name)) <= 1
        /\ \A i \in 1..Len(api_changes.structs) :
              Cardinality(Findings("structure", api_changes.structs[i].name)) <= 1
        /\ generate_abi_report(abi_breaking_changes)
              = generate_abi_report(analyze_abi_impact(api_changes, <<>>))

-----------------------------------------------------------------------------
(* Properties of the return type comparison (Spec) *)

\* the words a header has before its first `(`: the declared return type
\* followed by the function name
HeaderWords(sig) == split(strip(split_first(sig, "(")))

\* the return type a header declares: the words before the function name
DeclaredReturnType(sig) ==
    LET words == HeaderWords(sig) IN SubSeq(words, 1, Len(words) - 1)

\* the two headers of a modified record declare the same name and the same
\* parameter list with different return types
ReturnTypeDiffers(func) ==
    LET old_words == HeaderWords(func.old_signature)
        new_words == HeaderWords(func.new_signature)
    IN /\ Len(old_words) >= 2 /\ Len(new_words) >= 2
       /\ old_words[Len(old_words)] = new_words[Len(new_words)]
       /\ parse_function_parameters(func.old_signature)
             = parse_function_parameters(func.new_signature)
       /\ DeclaredReturnType(func.old_signature) # DeclaredReturnType(func.new_signature)

\* C28 as stated: a modified record whose two headers declare different
\* return types for the same name and parameter list has return_type_changed
\* set, and its ABI classification is a finding with the reason
\* "Return type changed".
C28_ReturnTypeChangeDetected ==
    \A i \in 1..Len(functions) :
        (functions[i].change_type = "modified" /\ ReturnTypeDiffers(functions[i]))
           => /\ functions[i].return_type_changed
              /\ LET impact == _analyze_function_abi_impact(functions[i]) IN
                 /\ impact # None
                 /\ \E k \in 1..Len(impact.reasons) :
                       impact.reasons[k] = "Return type changed"

-----------------------------------------------------------------------------
(* Properties of the brace depth of extract_struct_fields (SpecExtract) *)

\* the number of `{` less the number of `}` on the lines of index lo..hi-1
RECURSIVE BraceSum(_, _, _)
BraceSum(lines, lo, hi) ==
    IF lo >= hi THEN 0
    ELSE IF hi - lo = 1
    THEN count(strip(lines[lo + 1]), "{") - count(strip(lines[lo + 1]), "}")
    ELSE LET mid == (lo + hi) \div 2
             left == BraceSum(lines, lo, mid)
         IN left + BraceSum(lines, mid, hi)

\* the line declares a member
IsMemberLine(line) ==
    /\ Contains(line, <<";">>)
    /\ ~startswith(line, <<"/", "/">>)
    /\ strip(split_first(line, ";")) # <<>>
    /\ ~startswith(strip(split_first(line, ";")), <<"/", "*">>)

\* the members declared on the lines of index lo..hi-1, in source order
MembersBetween(lines, lo, hi) ==
    LET member_lines == SelectSeq([k \in 1..(hi - lo) |-> strip(lines[lo + k])], IsMemberLine)
    IN [k \in 1..Len(member_lines) |-> strip(split_first(member_lines[k], ";"))]

\* C27 as stated: from the entry line on, the scan stops only at the line on
\* which the brace depth counted from the opening brace of the entry line
\* first returns to 0, that line is not captured, and every member line
\* before it is captured in source order, also after a nested block, whatever
\* the name of a nested struct.
C27_NestedBlocksKeepDepth ==
    (pc = "fields" /\ file.exists) =>
        LET lines == file.lines
            lo == Max(0, line_num - 1)
            hi == Min(Len(lines), line_num + StructWindow)
            entries == {i \in lo..(hi - 1) : IsEntryLine(strip(lines[i + 1]))}
        IN entries # {} =>
              LET entry == CHOOSE i \in entries : \A j \in entries : i <= j
                  closing == {i \in (entry + 1)..(hi - 1) :
                                 1 + BraceSum(lines, entry + 1, i + 1) = 0}
                  stop == IF closing = {} THEN hi
                          ELSE CHOOSE i \in closing : \A j \in closing : i <= j
              IN /\ last_i = IF closing = {} THEN hi - 1 ELSE stop
                 /\ fields = MembersBetween(lines, entry + 1, stop)

-----------------------------------------------------------------------------
(* Properties of the struct records (Spec) *)

\* C29 as stated: every struct record tagged modified has a non-empty field
\* diff (an added, removed or reordered entry), also when the two field lists
\* differ only by a repeated entry, and its ABI classification is a finding.
C29_ModifiedStructHasDiff ==
    \A i \in 1..Len(struct_changes) :
        struct_changes[i].change_type = "modified" =>
            /\ \/ struct_changes[i].field_changes.added # <<>>
               \/ struct_changes[i].field_changes.removed # <<>>
               \/ struct_changes[i].field_changes.modified # <<>>
            /\ _analyze_struct_abi_impact(struct_changes[i]) # None

\* the positions of the records of a name
RecordsFor(records, name) == {i \in 1..Len(records) : records[i].name = name}

\* the tags of the records of a name
TagsFor(records, name) == {records[i].change_type : i \in RecordsFor(records, name)}

-----------------------------------------------------------------------------
(* Properties of the header prioritisation (SpecTags) *)

\* the lines taken so far that hold a tag with a name
ProcessedTags ==
    {k \in 1..lines_read :
        /\ tag_lines[k].json = "object"
        /\ get(tag_lines[k].tag, "_type", "") = "tag"
        /\ get(tag_lines[k].tag, "name", <<>>) # <<>>}

\* the processed tags of a name
TagsOf(name) == {k \in ProcessedTags : tag_lines[k].tag.name = name}

\* the path ends in .h or .H
HeaderPath(path) ==
    /\ Len(path) >= 2
    /\ path[Len(path) - 1] = "."
    /\ path[Len(path)] \in {"h", "H"}

\* the processed tags of a name that come from a header
HeaderTagsOf(name) ==
    {k \in TagsOf(name) : HeaderPath(get(tag_lines[k].tag, "path", <<>>))}

Last(positions) == CHOOSE k \in positions : \A j \in positions : j <= k

\* C26: after any sequence of tag lines, a name is stored iff a tag with that
\* name was processed; if one of its processed tags has a path ending in .h or
\* .H, the stored tag is a header tag, the last processed one of them;
\* otherwise the stored tag is the last processed tag of the name.
C26_HeaderPriority ==
    /\ DOMAIN symbols = {tag_lines[k].tag.name : k \in ProcessedTags}
    /\ \A name \in DOMAIN symbols :
          IF HeaderTagsOf(name) # {}
          THEN /\ HeaderPath(get(symbols[name], "path", <<>>))
               /\ symbols[name] = tag_lines[Last(HeaderTagsOf(name))].tag
          ELSE symbols[name] = tag_lines[Last(TagsOf(name))].tag

\* a header tag of f was processed, then a tag of f from a .c file, and the
\* header tag is the one stored
C26_Witness ==
    /\ lines_read >= 2
    /\ {1, 2} \subseteq TagsOf(FunctionF)
    /\ HeaderPath(get(tag_lines[1].tag, "path", <<>>))
    /\ ~HeaderPath(get(tag_lines[2].tag, "path", <<>>))
    /\ symbols[FunctionF].line = 1

====
